---- MODULE Spec2Model ----
(***************************************************************************)
(* Verification model of wjdr-backend-go's asynchronous execution engine:  *)
(*   - the durable job queue (internal/worker/job_queue.go over            *)
(*     internal/repository/job_repository.go) and the worker loop          *)
(*     (worker_pool.go),                                                   *)
(*   - the batch redemption scheduler (AutomationService.RedeemBatch,      *)
(*     tryOnceNoCooldown) over the game client (game_client.go),           *)
(*   - the process-wide redemption gate (accountRedeemGate).               *)
(*                                                                         *)
(* Time is kept relative to "now": a stored instant t is represented by    *)
(* t - now, and letting d units of time pass subtracts d from every        *)
(* stored instant.  The code only ever compares instants with now.         *)
(***************************************************************************)
EXTENDS Integers, Sequences, FiniteSets, TLC

VARIABLES
    \* ---- job queue / worker pool ----
    jobs,       \* the jobs table: id -> row (status "none": no such row yet)
    lastId,     \* the last AUTO_INCREMENT id handed out by CreateJob
    queue,      \* JobQueue.queue, the buffered channel of in-memory *Job copies
    worker,     \* the single worker goroutine: its position and the *Job it holds
    tickIn,     \* seconds until the loader's ticker fires next
    deq,        \* history: ids of the jobs a worker has received from the channel
    spilled,    \* history: ids of the jobs Enqueue persisted but could not send
    \* ---- AutomationService.RedeemBatch ----
    states,     \* states []*accountState, one per account of the batch
    results,    \* results []BatchRedeemResult
    pending,    \* pending, the number of accounts not yet finalized
    sinceSwitch,\* time since lastSwitchAt (-1: lastSwitchAt is the zero time)
    bpc,        \* position of the goroutine running RedeemBatch
    cur,        \* idx, the account index chosen by pickNext (0: none)
    stepRes,    \* stepRes, the result of the attempt being classified
    stepFault,  \* history: how the last game-API call of that attempt ended
    fatalSeen,  \* history: an attempt of this batch returned IsFatal
    busyRun,    \* history: per account, the 40101 results in a row just
                \* received (<<>>: the batch is run without this record)
    hist,       \* history: per account, its attempts so far and the 40100
                \* and the 40102/40103 results since its last cooldown
                \* (<<>>: the batch is run without this record)
    \* ---- RedeemSingle callers and the gate ----
    gate,       \* len(accountRedeemGate), the tokens held in the channel
    single,     \* position of each goroutine calling RedeemSingle
    \* ---- OCRKeyManager and the ocr_keys table ----
    ocrKeys,    \* the ocr_keys table: id -> row
    mkeys,      \* m.keys, the loaded []*weightedKey
    mtotal,     \* m.total, the sum of the effective weights
    ocall,      \* the goroutine inside RecognizeCaptcha: pc, tries, i, wk
    otried,     \* history: ids of the keys picked by the current call, in order
    picks,      \* history: id -> number of selections since the last Reload
    exhausted,  \* history: keys whose quota callback fired, not re-admitted since
    clean,      \* history: every recognition since the last Reload succeeded
    redeemLogs, \* redeem_logs of one redeem code: account id -> the results
                \* of its rows, in insertion order
    logCalls,   \* history: the ReplaceRedeemLog calls made in a row on the
                \* bare repository, the last two (<<>>: none)
    redeemCode, \* the redeem_codes row: status and the three counts
    handled,    \* history: the handler that ran last and how it returned
    pool,       \* the worker pool: "new" (built by NewManager), "running",
                \* "stopping" (Stop has cancelled the context and waits for
                \* the worker), "stopped"
    manager,    \* the Concurrency of the ManagerConfig, the position of
                \* each worker goroutine Start launched (<<>>: the workers
                \* are not recorded one by one) and the jobs they served
    \* ---- the payload column of the jobs table ----
    unparsable, \* ids of the rows whose payload ParseJobPayload rejects
    \* ---- what processJob dispatches on ----
    env,        \* the type of the job the worker holds, whether the redeem
                \* code of its payload exists, the active accounts, the
                \* verified accounts and payload.AccountIDs
    called,     \* history: the accounts the last handler handed to
                \* RedeemBatch (<<>>: it did not call RedeemBatch)
    \* ---- the shared GameClient and one RedeemSingle call ----
    rs,         \* the goroutine inside RedeemSingle: its position, the
                \* attempt of its loop, and what it has done so far
    client      \* the GameClient: c.fid, and the attempt of RedeemBatch
                \* that is using it, step by step (<<>>: the client's
                \* fields are not recorded)

qvars == <<jobs, lastId, queue, worker, tickIn, deq, spilled>>

bvars == <<states, results, pending, sinceSwitch, bpc, cur, stepRes, stepFault,
          fatalSeen, busyRun, hist>>

gvars == <<gate, single>>

ovars == <<ocrKeys, mkeys, mtotal, ocall, otried, picks, exhausted, clean>>

svars == <<redeemLogs, logCalls, redeemCode, handled>>

pvars == <<pool, manager>>

hvars == <<env, called>>

rvars == <<unparsable>>

cvars == <<rs, client>>

notQueue == <<bvars, gvars, ovars, svars, pvars, hvars, rvars, cvars>>

notBatch == <<qvars, gvars, ovars, svars, pvars, hvars, rvars, cvars>>

notGate == <<qvars, bvars, ovars, svars, pvars, hvars, rvars, cvars>>

notOcr == <<qvars, bvars, gvars, svars, pvars, hvars, rvars, cvars>>

notStats == <<qvars, bvars, gvars, ovars, pvars, hvars, rvars, cvars>>

notPool == <<qvars, bvars, gvars, ovars, svars, hvars, rvars, cvars>>

vars == <<jobs, lastId, queue, worker, tickIn, deq, spilled,
          states, results, pending, sinceSwitch, bpc, cur, stepRes, stepFault,
          fatalSeen, busyRun, hist,
          gate, single,
          ocrKeys, mkeys, mtotal, ocall, otried, picks, exhausted, clean,
          redeemLogs, logCalls, redeemCode, handled,
          pool, manager,
          env, called, unparsable, rs, client>>

-----------------------------------------------------------------------------
(* Bounds of the model *)

\* number of jobs ever submitted
MaxJobs == 2

\* capacity of the in-memory channel (ManagerConfig.QueueCapacity)
QueueCapacity == 1

(* Program constants *)

\* the loader's ticker period, in seconds
LoaderInterval == 10

\* RetryJob's cap on the backoff delay, in seconds
MaxDelaySeconds == 60

\* max_retries passed by SubmitRedeemTask / SubmitRetryTask
RedeemMaxRetries == 3

\* max_retries passed by SubmitSupplementTask
SupplementMaxRetries == 2

\* time.Second in nanoseconds, the unit of time.Duration
NanosPerSecond == 1000000000

\* width of time.Duration (int64)
WordBits == 64

\* err.Error() of the error a handler returned
HandlerError == "handler error"

-----------------------------------------------------------------------------
(* Helpers *)

Min(a, b) == IF a < b THEN a ELSE b

Max(a, b) == IF a > b THEN a ELSE b

RECURSIVE Pow2(_)
Pow2(n) == IF n <= 0 THEN 1 ELSE 2 * Pow2(n - 1)

\* the elements of a finite set of integers in ascending order
RECURSIVE Ascending(_)
Ascending(S) ==
    IF S = {} THEN <<>>
    ELSE LET m == CHOOSE x \in S : \A y \in S : x <= y
         IN  <<m>> \o Ascending(S \ {m})

JobIds == 1..MaxJobs

NoJob == [ID |-> 0, Retries |-> 0, MaxRetries |-> 0]

NoRow ==
    [status |-> "none", retries |-> 0, max_retries |-> 0, next_run_in |-> 0,
     error_message |-> "NULL"]

-----------------------------------------------------------------------------
(* JobRepository: single-statement updates of the jobs table *)

\* INSERT ... VALUES (?, ?, 'pending', 0, ?, NOW())
CreateJob(tbl, id, maxRetries) ==
    [tbl EXCEPT ![id] = [status |-> "pending", retries |-> 0,
                         max_retries |-> maxRetries, next_run_in |-> 0,
                         error_message |-> "NULL"]]

\* UPDATE jobs SET status = ?, error_message = ? WHERE id = ?
UpdateJobStatus(tbl, id, status, errorMessage) ==
    [tbl EXCEPT ![id].status = status, ![id].error_message = errorMessage]

MarkJobProcessing(tbl, id) == UpdateJobStatus(tbl, id, "processing", "NULL")

MarkJobCompleted(tbl, id) == UpdateJobStatus(tbl, id, "completed", "NULL")

MarkJobFailed(tbl, id, errorMessage) ==
    UpdateJobStatus(tbl, id, "failed", errorMessage)

\* UPDATE jobs SET retries = retries + 1, next_run_at = ?, error_message = ?,
\*                status = 'pending'
IncrementJobRetries(tbl, id, delay, errorMessage) ==
    [tbl EXCEPT ![id].retries = @ + 1,
                ![id].next_run_in = delay,
                ![id].error_message = errorMessage,
                ![id].status = "pending"]

\* variant of GetPendingJobs with an off-by-one LIMIT (LIMIT ? - 1)
GetPendingJobsShort(tbl, limit) ==
    LET due == Ascending({j \in JobIds : /\ tbl[j].status = "pending"
                                         /\ tbl[j].next_run_in <= 0})
    IN  SubSeq(due, 1, Min(limit - 1, Len(due)))

\* SELECT ... WHERE status = 'pending' AND next_run_at <= NOW()
\*            ORDER BY created_at ASC LIMIT ?
\* (rows are created in id order, so created_at order is id order)
GetPendingJobs(tbl, limit) ==
    LET due == Ascending({j \in JobIds : /\ tbl[j].status = "pending"
                                         /\ tbl[j].next_run_in <= 0})
    IN  SubSeq(due, 1, Min(limit, Len(due)))

-----------------------------------------------------------------------------
(* JobQueue *)

\* bit i of the non-negative n
Bit(n, i) == IF i > 30 THEN 0 ELSE (n \div Pow2(i)) % 2

\* delay := time.Duration(1<<job.Retries) * time.Second, then capped at 60 s
\* when delay > 60 s, in whole seconds.  time.Duration is an int64 of
\* nanoseconds, so the product is 2^retries * 10^9 modulo 2^64, read as a
\* signed number: its sign bit is bit (63 - retries) of 10^9, and the bits
\* below the sign bit are those of 10^9 below that position, shifted.
\*   retries < 6:   2^retries s, not above the cap;
\*   no bit shifted out, or a positive remainder: above 60 s, capped;
\*   sign bit set:  a negative Duration, which the cap leaves alone; the
\*                  instant lies before now and is kept as -1;
\*   all bits shifted out (and 1<<retries = 0 from retries = 64 on): 0.
RetryDelay(retries) ==
    LET top == WordBits - 1 - retries
    IN  IF retries >= WordBits THEN 0
        ELSE IF top > 30
        THEN (IF retries < 6 THEN Pow2(retries) ELSE MaxDelaySeconds)
        ELSE IF Bit(NanosPerSecond, top) = 1 THEN 0 - 1
        ELSE IF NanosPerSecond % Pow2(top) = 0 THEN 0
        ELSE MaxDelaySeconds

\* the message RetryJob stores with the failed status
MaxRetriesMessage(errorMessage) == "max retries: " \o errorMessage

\* variant of RetryJob that gives up only above max_retries (>)
RetryJobLate(tbl, job, errorMessage) ==
    IF job.Retries > job.MaxRetries
    THEN MarkJobFailed(tbl, job.ID, MaxRetriesMessage(errorMessage))
    ELSE IncrementJobRetries(tbl, job.ID, RetryDelay(job.Retries), errorMessage)

\* RetryJob: the table after the call succeeded
RetryJob(tbl, job, errorMessage) ==
    IF job.Retries >= job.MaxRetries
    THEN MarkJobFailed(tbl, job.ID, MaxRetriesMessage(errorMessage))
    ELSE IncrementJobRetries(tbl, job.ID, RetryDelay(job.Retries), errorMessage)

\* the in-memory *Job built from a row
JobOf(tbl, id) ==
    [ID |-> id, Retries |-> tbl[id].retries, MaxRetries |-> tbl[id].max_retries]

\* non-blocking send on the channel: select { case jq.queue <- job: default: }
TrySend(q, job) == IF Len(q) < QueueCapacity THEN Append(q, job) ELSE q

\* every payload of the table parses
PayloadsParse == unparsable = {}

\* loadBatch's loop over the rows GetPendingJobs returned: a row whose
\* payload does not parse is logged and skipped
RECURSIVE SendAll(_, _, _)
SendAll(q, tbl, ids) ==
    IF ids = <<>> THEN q
    ELSE IF Head(ids) \in unparsable THEN SendAll(q, tbl, Tail(ids))
    ELSE SendAll(TrySend(q, JobOf(tbl, Head(ids))), tbl, Tail(ids))

\* loadBatch: the channel after one load from the table
loadBatch(q, tbl) ==
    LET availableSpace == QueueCapacity - Len(q)
    IN  IF availableSpace <= 0 THEN q
        ELSE SendAll(q, tbl, GetPendingJobs(tbl, availableSpace))

\* Enqueue(type, payload, maxRetries): persist, then try a non-blocking send.
\* (A failed INSERT returns the error to the caller and changes nothing.)
Enqueue(maxRetries) ==
    /\ lastId < MaxJobs
    /\ LET id == lastId + 1
           tbl == CreateJob(jobs, id, maxRetries)
       IN  /\ lastId' = id
           /\ jobs' = tbl
           /\ queue' = TrySend(queue, [ID |-> id, Retries |-> 0,
                                       MaxRetries |-> maxRetries])
           /\ spilled' = IF Len(queue) < QueueCapacity THEN spilled
                          ELSE spilled \cup {id}
    /\ UNCHANGED <<worker, tickIn, deq>>
    /\ UNCHANGED notQueue

\* Manager.SubmitRedeemTask / SubmitRetryTask
SubmitRedeemTask == Enqueue(RedeemMaxRetries)

\* Manager.SubmitSupplementTask
SubmitSupplementTask == Enqueue(SupplementMaxRetries)

\* one second passes (the loader's ticker has not fired yet)
Advance ==
    /\ tickIn > 0
    /\ tickIn' = tickIn - 1
    /\ jobs' = [j \in JobIds |->
                  [jobs[j] EXCEPT !.next_run_in = Max(@ - 1, 0)]]
    /\ UNCHANGED <<lastId, queue, worker, deq, spilled>>
    /\ UNCHANGED notQueue

\* loadPendingJobs: the ticker fires and loadBatch runs
LoaderTick ==
    /\ tickIn = 0
    /\ tickIn' = LoaderInterval
    /\ queue' = loadBatch(queue, jobs)
    /\ UNCHANGED <<jobs, lastId, worker, deq, spilled>>
    /\ UNCHANGED notQueue

\* the ticker fires and GetPendingJobs returns an error: loadBatch returns
LoaderTickReadError ==
    /\ tickIn = 0
    /\ QueueCapacity - Len(queue) > 0
    /\ tickIn' = LoaderInterval
    /\ UNCHANGED <<jobs, lastId, queue, worker, deq, spilled>>
    /\ UNCHANGED notQueue

-----------------------------------------------------------------------------
(* WorkerPool.worker / processJob (Concurrency is forced to 1 by NewManager) *)

\* case job := <-wp.jobQueue.Dequeue()
Dequeue ==
    /\ worker.pc = "idle"
    /\ queue # <<>>
    /\ worker' = [pc |-> "mark", job |-> Head(queue)]
    /\ queue' = Tail(queue)
    /\ deq' = deq \cup {Head(queue).ID}
    /\ UNCHANGED <<jobs, lastId, tickIn, spilled>>
    /\ UNCHANGED notQueue

\* MarkJobProcessing succeeded
MarkProcessing ==
    /\ worker.pc = "mark"
    /\ jobs' = MarkJobProcessing(jobs, worker.job.ID)
    /\ worker' = [worker EXCEPT !.pc = "run"]
    /\ UNCHANGED <<lastId, queue, tickIn, deq, spilled>>
    /\ UNCHANGED notQueue

\* MarkJobProcessing returned an error: processJob returns
MarkProcessingError ==
    /\ worker.pc = "mark"
    /\ worker' = [pc |-> "idle", job |-> NoJob]
    /\ UNCHANGED <<jobs, lastId, queue, tickIn, deq, spilled>>
    /\ UNCHANGED notQueue

\* the handler returned nil and MarkJobCompleted succeeded
FinishCompleted ==
    /\ worker.pc = "run"
    /\ jobs' = MarkJobCompleted(jobs, worker.job.ID)
    /\ worker' = [pc |-> "idle", job |-> NoJob]
    /\ UNCHANGED <<lastId, queue, tickIn, deq, spilled>>
    /\ UNCHANGED notQueue

\* the handler returned an error and RetryJob succeeded
FinishRetry ==
    /\ worker.pc = "run"
    /\ jobs' = RetryJob(jobs, worker.job, HandlerError)
    /\ worker' = [pc |-> "idle", job |-> NoJob]
    /\ UNCHANGED <<lastId, queue, tickIn, deq, spilled>>
    /\ UNCHANGED notQueue

\* the final status update (MarkJobCompleted or RetryJob) returned an error,
\* which processJob only logs; or rateLimiter.Wait returned an error and
\* processJob returned before running the handler
FinishPersistError ==
    /\ worker.pc = "run"
    /\ worker' = [pc |-> "idle", job |-> NoJob]
    /\ UNCHANGED <<jobs, lastId, queue, tickIn, deq, spilled>>
    /\ UNCHANGED notQueue

-----------------------------------------------------------------------------
(* GameClient: classification of one HTTP exchange with the game API.      *)
(* A response is how the exchange ended ("send_error": client.Do failed,   *)
(* which includes the 30 s client timeout; "read_error": the body could    *)
(* not be read; "non200"; "bad_json"; "ok") and, when "ok", the decoded    *)
(* code and err_code (0 stands for an absent or non-numeric err_code,      *)
(* which parseErrCode maps to 0).                                          *)

TransportFailures == {"send_error", "read_error", "non200", "bad_json"}

ErrCodes == {0, 20000, 40007, 40008, 40014, 40100, 40101, 40102, 40103}

Responses ==
    {[transport |-> t, code |-> 0, err_code |-> 0] : t \in TransportFailures}
    \cup {[transport |-> "ok", code |-> c, err_code |-> e] :
             c \in {0, 1}, e \in ErrCodes}

GameResult(success, errCode, isFatal) ==
    [Success |-> success, ErrCode |-> errCode, IsFatal |-> isFatal]

isFatalError(errCode) == errCode = 40007 \/ errCode = 40014

isSuccess(errCode) == errCode = 20000

\* what Login, GetCaptcha and RedeemCode return when the exchange itself failed
TransportResult(resp) ==
    IF resp.transport = "send_error"
    THEN GameResult(FALSE, 0, FALSE)
    ELSE GameResult(FALSE, 40101, FALSE)

Login(resp) ==
    IF resp.transport # "ok" THEN TransportResult(resp)
    ELSE IF resp.code = 0 THEN GameResult(TRUE, 0, FALSE)
    ELSE GameResult(FALSE, resp.err_code, FALSE)

GetCaptcha(resp) ==
    IF resp.transport # "ok" THEN TransportResult(resp)
    ELSE IF resp.code = 0 THEN GameResult(TRUE, 0, FALSE)
    ELSE GameResult(FALSE, resp.err_code, FALSE)

RedeemCode(resp) ==
    IF resp.transport # "ok" THEN TransportResult(resp)
    ELSE IF isSuccess(resp.err_code) THEN GameResult(TRUE, resp.err_code, FALSE)
    ELSE GameResult(FALSE, resp.err_code, isFatalError(resp.err_code))

\* what the OCR balancer returns: an error, or a text with `alnum` letters
\* and digits (the empty text has none)
OcrResults ==
    {[err |-> TRUE, alnum |-> 0]} \cup {[err |-> FALSE, alnum |-> n] : n \in 0..5}

-----------------------------------------------------------------------------
(* AutomationService.tryOnceNoCooldown *)

RedeemResult(success, errCode, isFatal, stage) ==
    [Success |-> success, ErrCode |-> errCode, IsFatal |-> isFatal,
     Stage |-> stage]

NoResult == RedeemResult(FALSE, 0, FALSE, "")

tryOnceNoCooldown(l, c, o, r) ==
    LET loginResult == Login(l)
        captchaResult == GetCaptcha(c)
        redeemResult == RedeemCode(r)
    IN  IF ~loginResult.Success
        THEN IF loginResult.ErrCode = 40101
             THEN RedeemResult(FALSE, 40101, FALSE, "login")
             ELSE RedeemResult(FALSE, loginResult.ErrCode,
                               isFatalError(loginResult.ErrCode), "login")
        ELSE IF ~captchaResult.Success
        THEN RedeemResult(FALSE, captchaResult.ErrCode, FALSE, "captcha")
        ELSE IF o.err \/ o.alnum = 0
        THEN RedeemResult(FALSE, 40103, FALSE, "ocr")
        ELSE IF Min(o.alnum, 4) # 4
        THEN RedeemResult(FALSE, 40103, FALSE, "ocr")
        ELSE IF redeemResult.Success
        THEN RedeemResult(TRUE, redeemResult.ErrCode, FALSE, "completed")
        ELSE IF redeemResult.ErrCode = 40101
        THEN RedeemResult(FALSE, 40101, FALSE, "redeem")
        ELSE IF redeemResult.ErrCode = 40102 \/ redeemResult.ErrCode = 40103
        THEN RedeemResult(FALSE, redeemResult.ErrCode, FALSE, "redeem")
        ELSE IF redeemResult.IsFatal
        THEN RedeemResult(FALSE, redeemResult.ErrCode, TRUE, "redeem")
        ELSE RedeemResult(FALSE, redeemResult.ErrCode, FALSE, "redeem")

\* how the last game-API call made by that attempt ended
LastTransport(l, c, o, r) ==
    IF ~Login(l).Success THEN l.transport
    ELSE IF ~GetCaptcha(c).Success THEN c.transport
    ELSE IF o.err \/ Min(o.alnum, 4) # 4 THEN "ok"
    ELSE r.transport

\* every (result, last transport) pair an attempt can end with
AttemptCases ==
    {[res |-> tryOnceNoCooldown(l, c, o, r), fault |-> LastTransport(l, c, o, r)] :
        l \in Responses, c \in Responses, o \in OcrResults, r \in Responses}

-----------------------------------------------------------------------------
(* AutomationService.RedeemBatch.  Its clock is counted in ticks of 3 s.   *)

\* number of accounts in a batch
MaxAccounts == 3

\* an attempt (login, captcha, OCR, claim) takes 0..MaxAttemptTicks ticks
MaxAttemptTicks == 0

\* how far in the past a nextReadyAt is still told apart from older ones
LagCap == 1

\* attemptsInCycle is only ever compared with 3 after an increment; the
\* 40100 branch, which has no such comparison, stops counting at this value
AttemptsInCycleCap == 2

\* the 60 s cooldown, in ticks
CooldownTicks == 20

\* the 3 s short backoff, in ticks
ShortBackoffTicks == 1

\* minSwitchDelay (3 s), in ticks
MinSwitchDelayTicks == 1

\* st.cooldowns >= 3: the account is given up
MaxCooldowns == 3

\* st.attemptsInCycle >= 3: the account enters a cooldown
MaxAttemptsInCycle == 3

accountState(id) ==
    [acc |-> id, cooldowns |-> 0, attemptsInCycle |-> 0, nextReadyIn |-> 0,
     finalized |-> FALSE]

\* d ticks pass (a finalized account is no longer timed)
Elapse(st, d) ==
    [i \in 1..Len(st) |->
        IF st[i].finalized THEN st[i]
        ELSE [st[i] EXCEPT !.nextReadyIn = Max(@ - d, 0 - LagCap)]]

SinceAfter(since, d) ==
    IF since < 0 THEN since ELSE Min(since + d, MinSwitchDelayTicks)

\* variant of pickNext's loop that returns the open account with the
\* earliest nextReadyAt, ready or not
RECURSIVE pickScanEarliest(_, _, _)
pickScanEarliest(st, i, earliestIdx) ==
    IF i > Len(st)
    THEN IF earliestIdx = 0
         THEN [idx |-> 0, wait |-> 0, found |-> FALSE]
         ELSE [idx |-> earliestIdx,
               wait |-> Max(st[earliestIdx].nextReadyIn, 0), found |-> TRUE]
    ELSE IF st[i].finalized THEN pickScanEarliest(st, i + 1, earliestIdx)
    ELSE IF earliestIdx = 0 \/ st[i].nextReadyIn < st[earliestIdx].nextReadyIn
    THEN pickScanEarliest(st, i + 1, i)
    ELSE pickScanEarliest(st, i + 1, earliestIdx)

\* variant of pickNext's loop that serves the accounts strictly in order:
\* the first open account, waiting for it when it is cooling down
RECURSIVE pickScanSerial(_, _, _)
pickScanSerial(st, i, earliestIdx) ==
    IF i > Len(st) THEN [idx |-> 0, wait |-> 0, found |-> FALSE]
    ELSE IF st[i].finalized THEN pickScanSerial(st, i + 1, earliestIdx)
    ELSE [idx |-> i, wait |-> Max(st[i].nextReadyIn, 0), found |-> TRUE]

\* variant of pickNext's loop without the test of st.finalized
RECURSIVE pickScanAll(_, _, _)
pickScanAll(st, i, earliestIdx) ==
    IF i > Len(st)
    THEN IF earliestIdx = 0
         THEN [idx |-> 0, wait |-> 0, found |-> FALSE]
         ELSE [idx |-> earliestIdx, wait |-> st[earliestIdx].nextReadyIn,
               found |-> TRUE]
    ELSE IF st[i].nextReadyIn <= 0 THEN [idx |-> i, wait |-> 0, found |-> TRUE]
    ELSE IF earliestIdx = 0 \/ st[i].nextReadyIn < st[earliestIdx].nextReadyIn
    THEN pickScanAll(st, i + 1, i)
    ELSE pickScanAll(st, i + 1, earliestIdx)

\* pickNext(now): the loop over states, from index i on, with the earliest
\* not-yet-ready account seen so far (0: none)
RECURSIVE pickScan(_, _, _)
pickScan(st, i, earliestIdx) ==
    IF i > Len(st)
    THEN IF earliestIdx = 0
         THEN [idx |-> 0, wait |-> 0, found |-> FALSE]
         ELSE [idx |-> earliestIdx, wait |-> st[earliestIdx].nextReadyIn,
               found |-> TRUE]
    ELSE IF st[i].finalized THEN pickScan(st, i + 1, earliestIdx)
    ELSE IF st[i].nextReadyIn <= 0 THEN [idx |-> i, wait |-> 0, found |-> TRUE]
    ELSE IF earliestIdx = 0 \/ st[i].nextReadyIn < st[earliestIdx].nextReadyIn
    THEN pickScan(st, i + 1, i)
    ELSE pickScan(st, i + 1, earliestIdx)

pickNext(st) == pickScan(st, 1, 0)

\* variant of the classification that tolerates one more 40101 cooldown
\* (st.cooldowns > 3)
ClassifiedPatient(st, res) ==
    IF res.Success \/ res.IsFatal THEN [st EXCEPT !.finalized = TRUE]
    ELSE IF res.ErrCode = 40101
    THEN IF st.cooldowns + 1 > MaxCooldowns
         THEN [st EXCEPT !.cooldowns = @ + 1, !.attemptsInCycle = 0,
                         !.finalized = TRUE]
         ELSE [st EXCEPT !.cooldowns = @ + 1, !.attemptsInCycle = 0,
                         !.nextReadyIn = CooldownTicks]
    ELSE IF res.ErrCode = 40102 \/ res.ErrCode = 40103
    THEN IF st.attemptsInCycle + 1 >= MaxAttemptsInCycle
         THEN IF st.cooldowns + 1 >= MaxCooldowns
              THEN [st EXCEPT !.cooldowns = @ + 1, !.attemptsInCycle = 0,
                              !.finalized = TRUE]
              ELSE [st EXCEPT !.cooldowns = @ + 1, !.attemptsInCycle = 0,
                              !.nextReadyIn = CooldownTicks]
         ELSE [st EXCEPT !.attemptsInCycle = @ + 1,
                         !.nextReadyIn = ShortBackoffTicks]
    ELSE IF res.ErrCode = 40100
    THEN [st EXCEPT !.attemptsInCycle = Min(@ + 1, AttemptsInCycleCap),
                    !.nextReadyIn = ShortBackoffTicks]
    ELSE [st EXCEPT !.finalized = TRUE]

\* variant of Classified in which 40100 leaves attemptsInCycle alone
ClassifiedOftenFree(st, res) ==
    IF res.Success \/ res.IsFatal THEN [st EXCEPT !.finalized = TRUE]
    ELSE IF res.ErrCode = 40101
    THEN IF st.cooldowns + 1 >= MaxCooldowns
         THEN [st EXCEPT !.cooldowns = @ + 1, !.attemptsInCycle = 0,
                         !.finalized = TRUE]
         ELSE [st EXCEPT !.cooldowns = @ + 1, !.attemptsInCycle = 0,
                         !.nextReadyIn = CooldownTicks]
    ELSE IF res.ErrCode = 40102 \/ res.ErrCode = 40103
    THEN IF st.attemptsInCycle + 1 >= MaxAttemptsInCycle
         THEN IF st.cooldowns + 1 >= MaxCooldowns
              THEN [st EXCEPT !.cooldowns = @ + 1, !.attemptsInCycle = 0,
                              !.finalized = TRUE]
              ELSE [st EXCEPT !.cooldowns = @ + 1, !.attemptsInCycle = 0,
                              !.nextReadyIn = CooldownTicks]
         ELSE [st EXCEPT !.attemptsInCycle = @ + 1,
                         !.nextReadyIn = ShortBackoffTicks]
    ELSE IF res.ErrCode = 40100
    THEN [st EXCEPT !.nextReadyIn = ShortBackoffTicks]
    ELSE [st EXCEPT !.finalized = TRUE]

\* variant of Classified in which the 40102/40103 branch enters the
\* cooldown one result later (st.attemptsInCycle > 3)
ClassifiedFourth(st, res) ==
    IF res.Success \/ res.IsFatal THEN [st EXCEPT !.finalized = TRUE]
    ELSE IF res.ErrCode = 40101
    THEN IF st.cooldowns + 1 >= MaxCooldowns
         THEN [st EXCEPT !.cooldowns = @ + 1, !.attemptsInCycle = 0,
                         !.finalized = TRUE]
         ELSE [st EXCEPT !.cooldowns = @ + 1, !.attemptsInCycle = 0,
                         !.nextReadyIn = CooldownTicks]
    ELSE IF res.ErrCode = 40102 \/ res.ErrCode = 40103
    THEN IF st.attemptsInCycle + 1 > MaxAttemptsInCycle
         THEN IF st.cooldowns + 1 >= MaxCooldowns
              THEN [st EXCEPT !.cooldowns = @ + 1, !.attemptsInCycle = 0,
                              !.finalized = TRUE]
              ELSE [st EXCEPT !.cooldowns = @ + 1, !.attemptsInCycle = 0,
                              !.nextReadyIn = CooldownTicks]
         ELSE [st EXCEPT !.attemptsInCycle = @ + 1,
                         !.nextReadyIn = ShortBackoffTicks]
    ELSE IF res.ErrCode = 40100
    THEN [st EXCEPT !.attemptsInCycle = Min(@ + 1, AttemptsInCycleCap),
                    !.nextReadyIn = ShortBackoffTicks]
    ELSE [st EXCEPT !.finalized = TRUE]

\* variant of Classified whose default branch retries after the short
\* backoff instead of giving the account up
ClassifiedRetryOther(st, res) ==
    IF res.Success \/ res.IsFatal THEN [st EXCEPT !.finalized = TRUE]
    ELSE IF res.ErrCode = 40101
    THEN IF st.cooldowns + 1 >= MaxCooldowns
         THEN [st EXCEPT !.cooldowns = @ + 1, !.attemptsInCycle = 0,
                         !.finalized = TRUE]
         ELSE [st EXCEPT !.cooldowns = @ + 1, !.attemptsInCycle = 0,
                         !.nextReadyIn = CooldownTicks]
    ELSE IF res.ErrCode = 40102 \/ res.ErrCode = 40103
    THEN IF st.attemptsInCycle + 1 >= MaxAttemptsInCycle
         THEN IF st.cooldowns + 1 >= MaxCooldowns
              THEN [st EXCEPT !.cooldowns = @ + 1, !.attemptsInCycle = 0,
                              !.finalized = TRUE]
              ELSE [st EXCEPT !.cooldowns = @ + 1, !.attemptsInCycle = 0,
                              !.nextReadyIn = CooldownTicks]
         ELSE [st EXCEPT !.attemptsInCycle = @ + 1,
                         !.nextReadyIn = ShortBackoffTicks]
    ELSE [st EXCEPT !.attemptsInCycle = Min(@ + 1, AttemptsInCycleCap),
                    !.nextReadyIn = ShortBackoffTicks]

\* the account's state after the scheduler classified stepRes
Classified(st, res) ==
    IF res.Success \/ res.IsFatal THEN [st EXCEPT !.finalized = TRUE]
    ELSE IF res.ErrCode = 40101
    THEN IF st.cooldowns + 1 >= MaxCooldowns
         THEN [st EXCEPT !.cooldowns = @ + 1, !.attemptsInCycle = 0,
                         !.finalized = TRUE]
         ELSE [st EXCEPT !.cooldowns = @ + 1, !.attemptsInCycle = 0,
                         !.nextReadyIn = CooldownTicks]
    ELSE IF res.ErrCode = 40102 \/ res.ErrCode = 40103
    THEN IF st.attemptsInCycle + 1 >= MaxAttemptsInCycle
         THEN IF st.cooldowns + 1 >= MaxCooldowns
              THEN [st EXCEPT !.cooldowns = @ + 1, !.attemptsInCycle = 0,
                              !.finalized = TRUE]
              ELSE [st EXCEPT !.cooldowns = @ + 1, !.attemptsInCycle = 0,
                              !.nextReadyIn = CooldownTicks]
         ELSE [st EXCEPT !.attemptsInCycle = @ + 1,
                         !.nextReadyIn = ShortBackoffTicks]
    ELSE IF res.ErrCode = 40100
    THEN [st EXCEPT !.attemptsInCycle = Min(@ + 1, AttemptsInCycleCap),
                    !.nextReadyIn = ShortBackoffTicks]
    ELSE [st EXCEPT !.finalized = TRUE]

\* pickNext skips a finalized account and nothing else reads its counters:
\* the model keeps only its finalized flag
Forget(st) ==
    IF st.finalized
    THEN [st EXCEPT !.cooldowns = 0, !.attemptsInCycle = 0, !.nextReadyIn = 0]
    ELSE st

\* variant of the result entry that keeps tmp's initial Result "failed"
\* (without tmp.Result = "success")
BatchRedeemResultTmp(st, res) ==
    [AccountID |-> st.acc,
     Result |-> "failed",
     Success |-> res.Success]

BatchRedeemResult(st, res) ==
    [AccountID |-> st.acc,
     Result |-> IF res.Success THEN "success" ELSE "failed",
     Success |-> res.Success]

BatchRunning == bpc \in {"loop", "attempt", "classify"}

\* for pending > 0: pickNext finds nothing (the loop breaks)
BatchReturn ==
    /\ bpc = "loop"
    /\ pending <= 0 \/ ~pickNext(states).found
    /\ bpc' = "done"
    /\ UNCHANGED <<states, results, pending, sinceSwitch, cur, stepRes,
                   stepFault, fatalSeen, busyRun, hist>>
    /\ UNCHANGED notBatch

\* wait > 0: every open account is cooling down; sleep until the earliest
BatchSleep ==
    /\ bpc = "loop"
    /\ pending > 0
    /\ LET p == pickNext(states)
       IN  /\ p.found
           /\ p.wait > 0
           /\ states' = Elapse(states, p.wait)
           /\ sinceSwitch' = SinceAfter(sinceSwitch, p.wait)
    /\ UNCHANGED <<results, pending, bpc, cur, stepRes, stepFault, fatalSeen,
                   busyRun, hist>>
    /\ UNCHANGED notBatch

\* an account is ready: make up the 3 s since the last attempt, then try it
BatchStartAttempt ==
    /\ bpc = "loop"
    /\ pending > 0
    /\ LET p == pickNext(states)
           sleep == IF sinceSwitch >= 0 /\ sinceSwitch < MinSwitchDelayTicks
                    THEN MinSwitchDelayTicks - sinceSwitch
                    ELSE 0
       IN  /\ p.found
           /\ p.wait <= 0
           /\ cur' = p.idx
           /\ states' = Elapse(states, sleep)
           /\ sinceSwitch' = SinceAfter(sinceSwitch, sleep)
    /\ bpc' = "attempt"
    /\ UNCHANGED <<results, pending, stepRes, stepFault, fatalSeen, busyRun,
                   hist>>
    /\ UNCHANGED notBatch

\* stepRes := s.tryOnceNoCooldown(...); lastSwitchAt = time.Now()
BatchTryOnce ==
    /\ bpc = "attempt"
    /\ \E a \in AttemptCases, d \in 0..MaxAttemptTicks :
          /\ stepRes' = a.res
          /\ stepFault' = a.fault
          /\ fatalSeen' = (fatalSeen \/ a.res.IsFatal)
          /\ states' = Elapse(states, d)
    /\ sinceSwitch' = 0
    /\ bpc' = "classify"
    /\ UNCHANGED <<results, pending, cur, busyRun, hist>>
    /\ UNCHANGED notBatch

\* largest number of attempts, and of results of one kind, the record of
\* an account counts
HistCap == 3

\* largest number of attempts counted for an account none of whose
\* attempts returned 40100
PlainCap == 10

\* the attempts of an account so far, as long as none returned 40100
\* (-1 from then on)
Plain(n, res) ==
    IF n < 0 \/ (res.ErrCode = 40100 /\ ~res.Success /\ ~res.IsFatal)
    THEN 0 - 1
    ELSE Min(n + 1, PlainCap)

NoHist == [tries |-> 0, captcha |-> 0, often |-> 0]

\* the record of an account after one more attempt returned res; cooled:
\* the scheduler counted a cooldown for it (a record with the field plain
\* counts the attempts only)
Noted(h, res, cooled) ==
    IF "plain" \in DOMAIN h THEN [h EXCEPT !.plain = Plain(@, res)]
    ELSE
    [tries |-> Min(h.tries + 1, HistCap),
     captcha |-> IF cooled THEN 0
                 ELSE IF /\ res.ErrCode \in {40102, 40103}
                         /\ ~res.Success /\ ~res.IsFatal
                 THEN Min(h.captcha + 1, HistCap)
                 ELSE h.captcha,
     often |-> IF cooled THEN 0
               ELSE IF res.ErrCode = 40100 /\ ~res.Success /\ ~res.IsFatal
               THEN Min(h.often + 1, HistCap)
               ELSE h.often]

\* the if/switch over stepRes that ends the loop body
BatchClassify ==
    /\ bpc = "classify"
    /\ LET st == Classified(states[cur], stepRes)
       IN  /\ states' = [states EXCEPT ![cur] = Forget(st)]
           /\ results' = IF st.finalized
                         THEN Append(results, BatchRedeemResult(st, stepRes))
                         ELSE results
           /\ pending' = IF st.finalized THEN pending - 1 ELSE pending
           /\ busyRun' = IF busyRun = <<>> THEN busyRun
                         ELSE [busyRun EXCEPT ![cur] =
                                  IF st.finalized \/ stepRes.ErrCode # 40101
                                  THEN 0
                                  ELSE @ + 1]
           /\ hist' = IF hist = <<>> THEN hist
                      ELSE [hist EXCEPT ![cur] =
                               Noted(@, stepRes,
                                     st.cooldowns > states[cur].cooldowns)]
    /\ bpc' = "loop"
    /\ cur' = 0
    /\ stepRes' = NoResult
    /\ stepFault' = "ok"
    /\ UNCHANGED <<sinceSwitch, fatalSeen>>
    /\ UNCHANGED notBatch

\* RedeemBatch is not running
BatchIdle ==
    /\ states = <<>>
    /\ busyRun = <<>>
    /\ hist = <<>>
    /\ results = <<>>
    /\ pending = 0
    /\ sinceSwitch = -1
    /\ bpc = "idle"
    /\ cur = 0
    /\ stepRes = NoResult
    /\ stepFault = "ok"
    /\ fatalSeen = FALSE

\* RedeemBatch(accounts, giftCode) was called with n accounts
BatchCalled(n) ==
    /\ states = [i \in 1..n |-> accountState(i)]
    /\ busyRun = <<>>
    /\ hist = <<>>
    /\ results = <<>>
    /\ pending = n
    /\ sinceSwitch = -1
    /\ bpc = "loop"
    /\ cur = 0
    /\ stepRes = NoResult
    /\ stepFault = "ok"
    /\ fatalSeen = FALSE

NextBatch ==
    \/ BatchReturn
    \/ BatchSleep
    \/ BatchStartAttempt
    \/ BatchTryOnce
    \/ BatchClassify

-----------------------------------------------------------------------------
(* RedeemSingle callers (code pre-validation, cron) and accountRedeemGate *)

\* goroutines that may call RedeemSingle
NumSingleCallers == 2

\* cap(accountRedeemGate)
GateCapacity == 1

SingleCallers == 1..NumSingleCallers

GateIdle ==
    /\ gate = 0
    /\ single = [c \in SingleCallers |-> "idle"]

\* RedeemSingle: acquireAccountGate() blocks until the channel has room
SingleAcquire(c) ==
    /\ single[c] = "idle"
    /\ gate < GateCapacity
    /\ gate' = gate + 1
    /\ single' = [single EXCEPT ![c] = "flow"]
    /\ UNCHANGED notGate

\* RedeemSingle returns: the deferred releaseAccountGate() runs
SingleReturn(c) ==
    /\ single[c] = "flow"
    /\ gate' = IF gate > 0 THEN gate - 1 ELSE gate
    /\ single' = [single EXCEPT ![c] = "idle"]
    /\ UNCHANGED notGate

NextSingle == \E c \in SingleCallers : SingleAcquire(c) \/ SingleReturn(c)

-----------------------------------------------------------------------------
(* One call of AutomationService.RedeemSingle, request by request, and the *)
(* GameClient main shares between the AutomationService and the            *)
(* AccountService.  Login stores the fid in c.fid when the game accepts    *)
(* it; GetCaptcha and RedeemCode sign and send c.fid.  The client has no   *)
(* lock.  http.NewRequest, the only source of a non-nil error of the three *)
(* calls, does not fail for the fixed method and URL.                      *)

\* the fids of the accounts
NumFids == 2

Fids == 1..NumFids

\* maxRetries of RedeemSingle
SingleMaxRetries == 3

\* no call of RedeemSingle in progress
NoCall ==
    [pc |-> "idle", fid |-> 0, attempt |-> 0, why |-> "", relogin |-> "none",
     captchas |-> 0, claims |-> 0, stage |-> ""]

\* the client before any Login, with no attempt of the batch using it
NewGameClient == [fid |-> 0, pc |-> "idle", acc |-> 0, sent |-> <<>>]

ClientIdle ==
    /\ rs = NoCall
    /\ client = <<>>

\* c.fid = fid, which Login does when the response has code 0
LoggedIn(cl, fid, res) ==
    IF cl = <<>> \/ ~res.Success THEN cl ELSE [cl EXCEPT !.fid = fid]

\* a return statement of RedeemSingle with this Stage
Returned(r, stage) == [r EXCEPT !.pc = "returned", !.stage = stage]

\* continue, or the end of the loop body: attempt++, and the loop ends with
\* the return after it once attempt > maxRetries
NextAttempt(r) ==
    IF r.attempt + 1 <= SingleMaxRetries
    THEN [r EXCEPT !.pc = "captcha", !.attempt = @ + 1]
    ELSE Returned(r, "retry_exhausted")

\* the 60 s cooldown followed by a re-login, entered for this reason
Relogin(r, why) == [r EXCEPT !.pc = "relogin", !.why = why]

notClient == <<qvars, bvars, ovars, svars, pvars, hvars, rvars>>

\* RedeemSingle(fid, giftCode): acquireAccountGate()
SingleCall(f) ==
    /\ rs.pc = "idle"
    /\ gate < GateCapacity
    /\ gate' = gate + 1
    /\ rs' = [NoCall EXCEPT !.pc = "login", !.fid = f]
    /\ UNCHANGED <<single, client>>
    /\ UNCHANGED notClient

\* 1. the login; a failure returns at once
SingleFirstLogin(l) ==
    /\ rs.pc = "login"
    /\ LET res == Login(l)
       IN  /\ client' = LoggedIn(client, rs.fid, res)
           /\ rs' = IF res.Success
                    THEN [rs EXCEPT !.pc = "captcha", !.attempt = 1]
                    ELSE Returned(rs, "login")
    /\ UNCHANGED <<gate, single>>
    /\ UNCHANGED notClient

\* 2.1 GetCaptcha, and the branches on its failure
SingleGetCaptcha(c) ==
    /\ rs.pc = "captcha"
    /\ LET res == GetCaptcha(c)
           r == [rs EXCEPT !.captchas = @ + 1]
       IN  rs' = IF res.Success THEN [r EXCEPT !.pc = "ocr"]
                 ELSE IF res.ErrCode = 40100 THEN Relogin(r, "often")
                 ELSE IF res.ErrCode = 40101 THEN Relogin(r, "busy")
                 ELSE IF r.attempt = SingleMaxRetries
                 THEN Returned(r, "captcha")
                 ELSE NextAttempt(r)
    /\ UNCHANGED <<gate, single, client>>
    /\ UNCHANGED notClient

\* 2.2 the recognition and the normalisation to 4 letters and digits
SingleOcr(o) ==
    /\ rs.pc = "ocr"
    /\ rs' = IF o.err \/ o.alnum = 0 \/ Min(o.alnum, 4) # 4
             THEN IF rs.attempt = SingleMaxRetries
                  THEN Relogin(rs, "ocr")
                  ELSE NextAttempt(rs)
             ELSE [rs EXCEPT !.pc = "claim"]
    /\ UNCHANGED <<gate, single, client>>
    /\ UNCHANGED notClient

\* 2.3 RedeemCode, and the branches on its failure
SingleClaim(q) ==
    /\ rs.pc = "claim"
    /\ LET res == RedeemCode(q)
           r == [rs EXCEPT !.claims = @ + 1]
       IN  rs' = IF res.Success THEN Returned(r, "completed")
                 ELSE IF res.IsFatal THEN Returned(r, "redeem")
                 ELSE IF res.ErrCode = 40103 \/ res.ErrCode = 40102
                 THEN IF r.attempt = SingleMaxRetries
                      THEN Relogin(r, "captcha_error")
                      ELSE NextAttempt(r)
                 ELSE IF res.ErrCode = 40101
                 THEN IF r.attempt = SingleMaxRetries
                      THEN NextAttempt(r)
                      ELSE Relogin(r, "busy")
                 ELSE Returned(r, "redeem")
    /\ UNCHANGED <<gate, single, client>>
    /\ UNCHANGED notClient

\* the Login after a cooldown (for 40100: at once, and after a cooldown
\* when that one failed on the last attempt)
SingleRelogin(l) ==
    /\ rs.pc = "relogin"
    /\ LET res == Login(l)
           r == [rs EXCEPT !.relogin = IF res.Success THEN "ok" ELSE "failed"]
           last == r.attempt = SingleMaxRetries
       IN  /\ client' = LoggedIn(client, rs.fid, res)
           /\ rs' = IF r.why = "often"
                    THEN IF ~res.Success /\ last
                         THEN Relogin(r, "often_fallback")
                         ELSE NextAttempt(r)
                    ELSE IF r.why = "often_fallback"
                    THEN IF res.Success THEN NextAttempt(r)
                         ELSE Returned(r, "relogin")
                    ELSE IF r.why = "busy"
                    THEN IF ~res.Success /\ last THEN Returned(r, "relogin")
                         ELSE NextAttempt(r)
                    ELSE IF r.why = "ocr"
                    THEN IF res.Success THEN NextAttempt(r)
                         ELSE Returned(r, "relogin")
                    ELSE IF res.Success THEN NextAttempt(r)
                         ELSE Returned(r, "retry_exhausted")
    /\ UNCHANGED <<gate, single>>
    /\ UNCHANGED notClient

\* RedeemSingle returns: the deferred releaseAccountGate() runs
SingleReturns ==
    /\ rs.pc = "returned"
    /\ gate' = IF gate > 0 THEN gate - 1 ELSE gate
    /\ rs' = NoCall
    /\ UNCHANGED <<single, client>>
    /\ UNCHANGED notClient

\* tryOnceNoCooldown(fid, giftCode) for the account a of the batch: Login
TryLogin(a, l) ==
    /\ client.pc = "idle"
    /\ client' = IF Login(l).Success
                 THEN [fid |-> a, pc |-> "captcha", acc |-> a, sent |-> <<>>]
                 ELSE [client EXCEPT !.acc = a, !.sent = <<>>]
    /\ UNCHANGED <<gate, single, rs>>
    /\ UNCHANGED notClient

\* its GetCaptcha: the request carries c.fid
TryGetCaptcha(c) ==
    /\ client.pc = "captcha"
    /\ client' = [client EXCEPT
                     !.sent = Append(@, client.fid),
                     !.pc = IF GetCaptcha(c).Success THEN "ocr" ELSE "idle"]
    /\ UNCHANGED <<gate, single, rs>>
    /\ UNCHANGED notClient

\* its recognition
TryOcr(o) ==
    /\ client.pc = "ocr"
    /\ client' = [client EXCEPT
                     !.pc = IF o.err \/ o.alnum = 0 \/ Min(o.alnum, 4) # 4
                            THEN "idle" ELSE "claim"]
    /\ UNCHANGED <<gate, single, rs>>
    /\ UNCHANGED notClient

\* its RedeemCode: the request carries c.fid
TryClaim ==
    /\ client.pc = "claim"
    /\ client' = [client EXCEPT !.sent = Append(@, client.fid), !.pc = "idle"]
    /\ UNCHANGED <<gate, single, rs>>
    /\ UNCHANGED notClient

\* AccountService.CreateAccount and VerifyAccount, called by the HTTP
\* handlers and the cron: Login(fid) on the shared client
AccountLogin(f, l) ==
    /\ client' = LoggedIn(client, f, Login(l))
    /\ UNCHANGED <<gate, single, rs>>
    /\ UNCHANGED notClient

NextClient ==
    \/ \E f \in Fids : SingleCall(f)
    \/ \E l \in Responses : SingleFirstLogin(l)
    \/ \E c \in Responses : SingleGetCaptcha(c)
    \/ \E o \in OcrResults : SingleOcr(o)
    \/ \E q \in Responses : SingleClaim(q)
    \/ \E l \in Responses : SingleRelogin(l)
    \/ SingleReturns
    \/ \E a \in Fids, l \in Responses : TryLogin(a, l)
    \/ \E c \in Responses : TryGetCaptcha(c)
    \/ \E o \in OcrResults : TryOcr(o)
    \/ TryClaim
    \/ \E f \in Fids, l \in Responses : AccountLogin(f, l)

-----------------------------------------------------------------------------
(* WorkerPool.Stop beside the worker, which is inside RedeemBatch.  The    *)
(* context Stop cancels is read by the worker's select and by              *)
(* rateLimiter.Wait; RedeemBatch takes no context and sleeps with          *)
(* time.Sleep.                                                             *)

\* largest Concurrency of a ManagerConfig
MaxConcurrency == 3

\* jobs the recorded workers serve
MaxServed == 3

\* the handlers of processJob
HandlerTypes == {"redeem", "retry_redeem", "supplement_redeem"}

\* the pool runs, its workers are not recorded one by one
PoolRunning ==
    /\ pool = "running"
    /\ manager = [configured |-> 1, workers |-> <<>>, served |-> 0]

\* variant of WorkerPoolConcurrency that passes the configured value on
ConfiguredConcurrency(configured) == configured

\* NewManager: the Concurrency of the WorkerPoolConfig it builds
WorkerPoolConcurrency(configured) == 1

\* the workers that have not returned
Executors == {w \in 1..Len(manager.workers) : manager.workers[w] # "exited"}

\* the workers inside a handler
InHandler == {w \in 1..Len(manager.workers) : manager.workers[w] \in HandlerTypes}

\* Manager.Start (main calls it once): WorkerPool.Start launches
\* wp.concurrency workers
ManagerStart ==
    /\ pool = "new"
    /\ pool' = "running"
    /\ manager' = [manager EXCEPT !.workers =
                      [i \in 1..WorkerPoolConcurrency(manager.configured) |->
                          "idle"]]
    /\ UNCHANGED notPool

\* a worker receives a job and processJob dispatches it to its handler (the
\* select may take the job although the context is cancelled)
WorkerDispatch(w, type) ==
    /\ pool \in {"running", "stopping"}
    /\ w \in 1..Len(manager.workers)
    /\ manager.workers[w] = "idle"
    /\ manager.served < MaxServed
    /\ manager' = [manager EXCEPT !.workers[w] = type]
    /\ UNCHANGED pool
    /\ UNCHANGED notPool

\* processJob returns
WorkerReturns(w) ==
    /\ w \in InHandler
    /\ manager' = [manager EXCEPT !.workers[w] = "idle", !.served = @ + 1]
    /\ UNCHANGED pool
    /\ UNCHANGED notPool

\* case <-wp.ctx.Done(): the worker returns
WorkerExits(w) ==
    /\ pool = "stopping"
    /\ w \in 1..Len(manager.workers)
    /\ manager.workers[w] = "idle"
    /\ manager' = [manager EXCEPT !.workers[w] = "exited"]
    /\ UNCHANGED pool
    /\ UNCHANGED notPool

\* Stop: wp.cancel(), then workerWg.Wait() begins
StopSignal ==
    /\ pool = "running"
    /\ pool' = "stopping"
    /\ UNCHANGED manager
    /\ UNCHANGED notPool

\* RedeemBatch has returned, the worker's select reads ctx.Done() and the
\* worker returns: workerWg.Wait() and Stop return
StopReturn ==
    /\ pool = "stopping"
    /\ ~BatchRunning
    /\ Executors = {}
    /\ pool' = "stopped"
    /\ UNCHANGED manager
    /\ UNCHANGED notPool

NextPool ==
    \/ ManagerStart
    \/ \E w \in 1..MaxConcurrency : \E type \in HandlerTypes :
          WorkerDispatch(w, type)
    \/ \E w \in 1..MaxConcurrency : WorkerReturns(w)
    \/ \E w \in 1..MaxConcurrency : WorkerExits(w)
    \/ StopSignal
    \/ StopReturn

-----------------------------------------------------------------------------
(* OCRKeyManager (internal/client/ocr_manager.go) over the ocr_keys table. *)
(* The callbacks are the ones main wires in: onKeyExhausted marks the key   *)
(* has_quota = false, lists the usable keys and reloads the manager.        *)

\* number of rows of ocr_keys
NumKeys == 2

\* selections made after one Reload
MaxPicks == 8

KeyIds == 1..NumKeys

\* the weight column of a row
Weights == {0, 1, 3}

\* (monthly_quota, remaining_quota) of a row
QuotaConfigs == {<<0, 0>>, <<2, 1>>, <<2, 2>>}

\* the provider column of a row
Providers == {"", "tencent"}

\* the providers init registers
RegisteredProviders == {"baidu"}

\* getOCRProvider after Reload's default: an empty provider is "baidu"
getOCRProvider(provider) ==
    (IF provider = "" THEN "baidu" ELSE provider) \in RegisteredProviders

KeyRows ==
    [is_active : BOOLEAN, has_quota : {TRUE}, weight : Weights,
     quota : QuotaConfigs, provider : Providers]

\* the model.OCRKey scanned from row id
OCRKey(tbl, id) ==
    [ID |-> id, IsActive |-> tbl[id].is_active, HasQuota |-> tbl[id].has_quota,
     Weight |-> tbl[id].weight, MonthlyQuota |-> tbl[id].quota[1],
     RemainingQuota |-> tbl[id].quota[2], Provider |-> tbl[id].provider]

\* SELECT ... WHERE is_active = TRUE AND has_quota = TRUE ORDER BY id ASC
ListUsable(tbl) ==
    LET ids == Ascending({k \in KeyIds : tbl[k].is_active /\ tbl[k].has_quota})
    IN  [i \in 1..Len(ids) |-> OCRKey(tbl, ids[i])]

\* UPDATE ocr_keys SET has_quota = ? WHERE id = ?
MarkQuota(tbl, id, hasQuota) == [tbl EXCEPT ![id].has_quota = hasQuota]

\* effWeight: int(weight * min(1 + remaining/monthly, 2)), at least 1
effWeight(k) ==
    IF k.MonthlyQuota > 0 /\ k.RemainingQuota >= 0
    THEN Max(IF k.RemainingQuota >= k.MonthlyQuota
             THEN 2 * k.Weight
             ELSE (k.Weight * (k.MonthlyQuota + k.RemainingQuota)) \div k.MonthlyQuota,
             1)
    ELSE k.Weight

\* variant of Reload's loop without the test of the weight
RECURSIVE ReloadFromAnyWeight(_, _)
ReloadFromAnyWeight(keys, acc) ==
    IF keys = <<>> THEN acc
    ELSE LET k == Head(keys)
         IN  IF ~k.IsActive \/ ~k.HasQuota
             THEN ReloadFromAnyWeight(Tail(keys), acc)
             ELSE IF ~getOCRProvider(k.Provider)
             THEN ReloadFromAnyWeight(Tail(keys), acc)
             ELSE ReloadFromAnyWeight(Tail(keys),
                     [keys |-> Append(acc.keys, [key |-> k, current |-> 0]),
                      total |-> acc.total + effWeight(k)])

\* Reload's loop over the supplied keys
RECURSIVE ReloadFrom(_, _)
ReloadFrom(keys, acc) ==
    IF keys = <<>> THEN acc
    ELSE LET k == Head(keys)
         IN  IF ~k.IsActive \/ ~k.HasQuota \/ k.Weight <= 0
             THEN ReloadFrom(Tail(keys), acc)
             ELSE IF ~getOCRProvider(k.Provider)
             THEN ReloadFrom(Tail(keys), acc)
             ELSE ReloadFrom(Tail(keys),
                     [keys |-> Append(acc.keys, [key |-> k, current |-> 0]),
                      total |-> acc.total + effWeight(k)])

\* Reload(keys): the new m.keys and m.total
Reload(keys) == ReloadFrom(keys, [keys |-> <<>>, total |-> 0])

\* pick's loop: the index of the first key with the largest current (0: none)
RECURSIVE bestScan(_, _, _)
bestScan(keys, i, best) ==
    IF i > Len(keys) THEN best
    ELSE IF best = 0 \/ keys[i].current > keys[best].current
    THEN bestScan(keys, i + 1, i)
    ELSE bestScan(keys, i + 1, best)

\* pick(): smooth weighted round robin; best = 0 stands for nil
pick(keys, total) ==
    LET bumped == [i \in 1..Len(keys) |->
                      [keys[i] EXCEPT !.current = @ + keys[i].key.Weight]]
        best == bestScan(bumped, 1, 0)
    IN  [best |-> best,
         keys |-> IF best = 0 THEN bumped
                  ELSE [bumped EXCEPT ![best].current = @ - total]]

LoadedIds(keys) == {keys[i].key.ID : i \in 1..Len(keys)}

NoPicks == [k \in KeyIds |-> 0]

TotalPicks == picks[1] + picks[2]

OcrReturned(ret) == [pc |-> "idle", tries |-> 0, i |-> 0, wk |-> 0, ret |-> ret]

\* RecognizeCaptcha: tries := len(m.keys); no key loaded: an error at once
OcrCall ==
    /\ ocall.pc = "idle"
    /\ ocall' = IF Len(mkeys) = 0 THEN OcrReturned("error")
                ELSE [pc |-> "loop", tries |-> Len(mkeys), i |-> 0, wk |-> 0,
                      ret |-> "none"]
    /\ otried' = <<>>
    /\ UNCHANGED <<ocrKeys, mkeys, mtotal, picks, exhausted, clean>>
    /\ UNCHANGED notOcr

\* wk := m.pick(); nil ends the loop with an error
OcrPick ==
    /\ ocall.pc = "loop"
    /\ TotalPicks < MaxPicks
    /\ LET p == pick(mkeys, mtotal)
       IN  IF p.best = 0
           THEN /\ ocall' = OcrReturned("error")
                /\ UNCHANGED <<mkeys, otried, picks>>
           ELSE LET id == p.keys[p.best].key.ID
                IN  /\ mkeys' = p.keys
                    /\ ocall' = [ocall EXCEPT !.pc = "try", !.wk = id]
                    /\ otried' = Append(otried, id)
                    /\ picks' = [picks EXCEPT ![id] = @ + 1]
    /\ UNCHANGED <<ocrKeys, mtotal, exhausted, clean>>
    /\ UNCHANGED notOcr

\* the end of a failed iteration: i++, and the loop ends after tries rounds
OcrNextRound(c) ==
    IF c.i + 1 < c.tries THEN [c EXCEPT !.pc = "loop", !.i = @ + 1, !.wk = 0]
    ELSE OcrReturned("error")

\* the recognizer returned a non-empty text
OcrSuccess ==
    /\ ocall.pc = "try"
    /\ ocall' = OcrReturned("ok")
    /\ UNCHANGED <<ocrKeys, mkeys, mtotal, otried, picks, exhausted, clean>>
    /\ UNCHANGED notOcr

\* the recognizer failed with an error that is no quota/auth code, or
\* returned an empty text
OcrFailure ==
    /\ ocall.pc = "try"
    /\ ocall' = OcrNextRound(ocall)
    /\ clean' = FALSE
    /\ UNCHANGED <<ocrKeys, mkeys, mtotal, otried, picks, exhausted>>
    /\ UNCHANGED notOcr

\* a quota/auth code: onKeyExhausted marks the key, lists the usable keys
\* and reloads the manager
OcrQuotaError ==
    /\ ocall.pc = "try"
    /\ LET tbl == MarkQuota(ocrKeys, ocall.wk, FALSE)
           m == Reload(ListUsable(tbl))
       IN  /\ ocrKeys' = tbl
           /\ mkeys' = m.keys
           /\ mtotal' = m.total
           /\ exhausted' = (exhausted \cup {ocall.wk}) \ LoadedIds(m.keys)
    /\ picks' = NoPicks
    /\ clean' = TRUE
    /\ ocall' = OcrNextRound(ocall)
    /\ UNCHANGED otried
    /\ UNCHANGED notOcr

\* a quota/auth code, and MarkQuota returns an error: the callback returns
OcrQuotaMarkFails ==
    /\ ocall.pc = "try"
    /\ exhausted' = exhausted \cup {ocall.wk}
    /\ ocall' = OcrNextRound(ocall)
    /\ clean' = FALSE
    /\ UNCHANGED <<ocrKeys, mkeys, mtotal, otried, picks>>
    /\ UNCHANGED notOcr

\* a quota/auth code, the key is marked, and ListUsable returns an error:
\* the callback returns without reloading
OcrQuotaListFails ==
    /\ ocall.pc = "try"
    /\ ocrKeys' = MarkQuota(ocrKeys, ocall.wk, FALSE)
    /\ exhausted' = exhausted \cup {ocall.wk}
    /\ ocall' = OcrNextRound(ocall)
    /\ clean' = FALSE
    /\ UNCHANGED <<mkeys, mtotal, otried, picks>>
    /\ UNCHANGED notOcr

\* reloadFunc (cron, admin changes): ListUsable, then Reload
ReloadUsable ==
    /\ LET m == Reload(ListUsable(ocrKeys))
       IN  /\ mkeys' = m.keys
           /\ mtotal' = m.total
           /\ exhausted' = exhausted \ LoadedIds(m.keys)
    /\ picks' = NoPicks
    /\ clean' = TRUE
    /\ UNCHANGED <<ocrKeys, ocall, otried>>
    /\ UNCHANGED notOcr

\* the monthly reset or an administrator sets has_quota = TRUE again
ReadmitKey(k) ==
    /\ ~ocrKeys[k].has_quota
    /\ ocrKeys' = MarkQuota(ocrKeys, k, TRUE)
    /\ UNCHANGED <<mkeys, mtotal, ocall, otried, picks, exhausted, clean>>
    /\ UNCHANGED notOcr

NextOcr ==
    \/ OcrCall
    \/ OcrPick
    \/ OcrSuccess
    \/ OcrFailure
    \/ OcrQuotaError
    \/ OcrQuotaMarkFails
    \/ OcrQuotaListFails
    \/ ReloadUsable
    \/ \E k \in KeyIds : ReadmitKey(k)

\* no key row, nothing loaded, no call in progress
OcrIdle ==
    /\ ocrKeys = [k \in KeyIds |->
                    [is_active |-> FALSE, has_quota |-> FALSE, weight |-> 0,
                     quota |-> <<0, 0>>]]
    /\ mkeys = <<>>
    /\ mtotal = 0
    /\ ocall = OcrReturned("none")
    /\ otried = <<>>
    /\ picks = NoPicks
    /\ exhausted = {}
    /\ clean = TRUE

-----------------------------------------------------------------------------
(* The job handlers of the worker pool (processRedeemJob, which also serves *)
(* retry_redeem, and processSupplementRedeemJob) over redeem_logs and the   *)
(* redeem_codes row of one redeem code.  Every account is active and        *)
(* verified.  RedeemBatch hands back one result per account it was given.   *)

\* number of active, verified accounts
NumStatAccounts == 2

\* rows CreateRedeemLog may leave for one (redeem code, account) pair
MaxRows == 2

StatAccounts == 1..NumStatAccounts

\* number of rows among rows[1..n] whose result is in the set wanted
RECURSIVE CountRows(_, _, _)
CountRows(rows, n, wanted) ==
    IF n = 0 THEN 0
    ELSE CountRows(rows, n - 1, wanted)
         + (IF rows[n] \in wanted THEN 1 ELSE 0)

\* the sum of CountRows over the accounts 1..a
RECURSIVE CountLogs(_, _, _)
CountLogs(logs, a, wanted) ==
    IF a = 0 THEN 0
    ELSE CountLogs(logs, a - 1, wanted)
         + CountRows(logs[a], Len(logs[a]), wanted)

\* GetLogStats: COUNT(*), SUM(result = 'success'), SUM(result = 'failed')
GetLogStats(logs) ==
    [total   |-> CountLogs(logs, NumStatAccounts, {"success", "failed"}),
     success |-> CountLogs(logs, NumStatAccounts, {"success"}),
     failed  |-> CountLogs(logs, NumStatAccounts, {"failed"})]

\* CreateRedeemLog: INSERT INTO redeem_logs
CreateRedeemLog(logs, a, result) == [logs EXCEPT ![a] = Append(@, result)]

\* variant of ReplaceRedeemLog without the DELETE of the old rows
ReplaceRedeemLogKeep(logs, a, result) == [logs EXCEPT ![a] = Append(@, result)]

\* ReplaceRedeemLog, committed: DELETE the rows of (code, account), then
\* INSERT the new row
ReplaceRedeemLog(logs, a, result) == [logs EXCEPT ![a] = <<result>>]

\* ReplaceRedeemLog for the results of accounts[1..n], in order; the writes
\* of wfail return an error and roll back
RECURSIVE ReplaceRedeemLogsFrom(_, _, _, _, _)
ReplaceRedeemLogsFrom(logs, accounts, n, succ, wfail) ==
    IF n = 0 THEN logs
    ELSE LET before == ReplaceRedeemLogsFrom(logs, accounts, n - 1, succ, wfail)
             a == accounts[n]
         IN  IF a \in wfail THEN before
             ELSE ReplaceRedeemLog(before, a,
                      IF a \in succ THEN "success" ELSE "failed")

ReplaceRedeemLogs(logs, accounts, succ, wfail) ==
    ReplaceRedeemLogsFrom(logs, Ascending(accounts), Cardinality(accounts),
                          succ, wfail)

\* UPDATE redeem_codes SET status = ?, total_accounts = ?
UpdateRedeemCodeStatus(row, status, totalAccounts) ==
    [row EXCEPT !.status = status, !.total_accounts = totalAccounts]

\* variant of UpdateRedeemCodeStats that writes total_accounts only
UpdateRedeemCodeStatsTotal(row, successCount, failedCount, totalAccounts) ==
    [row EXCEPT !.total_accounts = totalAccounts]

\* UPDATE redeem_codes SET success_count = ?, failed_count = ?, total_accounts = ?
UpdateRedeemCodeStats(row, successCount, failedCount, totalAccounts) ==
    [row EXCEPT !.success_count = successCount, !.failed_count = failedCount,
                !.total_accounts = totalAccounts]

\* the accounts of a redeem job: those of payload.AccountIDs, or all
JobAccounts(ids) == IF ids # {} THEN ids ELSE StatAccounts

\* processRedeemJob: marks the code processing, runs the batch (succ: the
\* accounts whose result is a success), writes one log per result, stores
\* the counts it counted in memory and marks the code completed
processRedeemJob(ids, succ, wfail, statsFail, completeFail) ==
    LET accounts == JobAccounts(ids)
        successCount == Cardinality(accounts \cap succ)
        failedCount == Cardinality(accounts \ succ)
        processing == UpdateRedeemCodeStatus(redeemCode, "processing",
                                             Cardinality(accounts))
        counted == IF statsFail THEN processing
                   ELSE UpdateRedeemCodeStats(processing, successCount,
                            failedCount, Cardinality(accounts))
    IN  /\ redeemLogs' = ReplaceRedeemLogs(redeemLogs, accounts, succ, wfail)
        /\ redeemCode' = IF completeFail THEN counted
                         ELSE UpdateRedeemCodeStatus(counted, "completed",
                                                     Cardinality(accounts))
        /\ handled' = IF completeFail THEN "redeem_error" ELSE "redeem_ok"
        /\ UNCHANGED logCalls
        /\ UNCHANGED notStats

\* processRedeemJob when the first UpdateRedeemCodeStatus returns an error
processRedeemJobError ==
    /\ handled' = "redeem_error"
    /\ UNCHANGED <<redeemLogs, logCalls, redeemCode>>
    /\ UNCHANGED notStats

\* processSupplementRedeemJob: the accounts without a log of this code are
\* redeemed, logged, and the counts are recomputed from redeem_logs
processSupplementRedeemJob(succ, wfail, statsFail) ==
    LET newAccounts == {a \in StatAccounts : redeemLogs[a] = <<>>}
        logs == ReplaceRedeemLogs(redeemLogs, newAccounts, succ, wfail)
        st == GetLogStats(logs)
    IN  /\ redeemLogs' = logs
        /\ redeemCode' = IF newAccounts = {} \/ statsFail THEN redeemCode
                         ELSE UpdateRedeemCodeStats(redeemCode, st.success,
                                                    st.failed, st.total)
        /\ handled' = "supplement_ok"
        /\ UNCHANGED logCalls
        /\ UNCHANGED notStats

NextStats ==
    \/ \E ids \in SUBSET StatAccounts :
          \E succ, wfail \in SUBSET JobAccounts(ids) :
              \E statsFail, completeFail \in BOOLEAN :
                  processRedeemJob(ids, succ, wfail, statsFail, completeFail)
    \/ processRedeemJobError
    \/ \E succ, wfail \in SUBSET StatAccounts : \E statsFail \in BOOLEAN :
          processSupplementRedeemJob(succ, wfail, statsFail)

\* a redeem code just submitted: no log, no counts, no handler has run
StatsIdle ==
    /\ redeemLogs = [a \in StatAccounts |-> <<>>]
    /\ logCalls = <<>>
    /\ redeemCode = [status |-> "pending", success_count |-> 0,
                     failed_count |-> 0, total_accounts |-> 0]
    /\ handled = "none"

\* the commands on redeem_logs, called one after the other for one redeem
\* code.  logCalls holds the last two committed calls of ReplaceRedeemLog
\* since the last other write.
LogResults == {"success", "failed"}

CallCreateRedeemLog(a, result) ==
    /\ Len(redeemLogs[a]) < MaxRows
    /\ redeemLogs' = CreateRedeemLog(redeemLogs, a, result)
    /\ logCalls' = <<>>
    /\ handled' = "log_created"
    /\ UNCHANGED redeemCode
    /\ UNCHANGED notStats

\* ReplaceRedeemLog returns nil: the transaction is committed
CallReplaceRedeemLog(a, result) ==
    LET call == [acc |-> a, result |-> result]
    IN  /\ redeemLogs' = ReplaceRedeemLog(redeemLogs, a, result)
        /\ logCalls' = IF logCalls = <<>> THEN <<call>>
                       ELSE <<logCalls[Len(logCalls)], call>>
        /\ handled' = "log_replaced"
        /\ UNCHANGED redeemCode
        /\ UNCHANGED notStats

\* ReplaceRedeemLog returns an error of Begin, of the DELETE or of the
\* INSERT: the deferred Rollback undoes the transaction
CallReplaceRedeemLogError ==
    /\ handled # "log_error"
    /\ handled' = "log_error"
    /\ UNCHANGED <<redeemLogs, logCalls, redeemCode>>
    /\ UNCHANGED notStats

NextLogs ==
    \/ \E a \in StatAccounts : \E result \in LogResults :
          CallCreateRedeemLog(a, result)
    \/ \E a \in StatAccounts : \E result \in LogResults :
          CallReplaceRedeemLog(a, result)
    \/ CallReplaceRedeemLogError

-----------------------------------------------------------------------------
(* processJob: the dispatch on the type of the job, the accounts the       *)
(* handlers resolve, the call of RedeemBatch and the writes that follow.   *)

JobTypes == {"redeem", "retry_redeem", "supplement_redeem", "unknown"}

\* every account is active and verified, the redeem code exists
DefaultEnv ==
    [type |-> "redeem", codeExists |-> TRUE, active |-> StatAccounts,
     verified |-> StatAccounts, ids |-> {}]

HandlerIdle ==
    /\ env = DefaultEnv
    /\ called = <<>>

\* variant of RedeemAccounts that takes every active account
RedeemAccountsActive(e) ==
    IF e.ids # {} THEN e.ids \cap e.active ELSE e.active

\* processRedeemJob: the accounts of payload.AccountIDs found by GetActive,
\* or, without payload.AccountIDs, the active accounts with IsVerified
RedeemAccounts(e) ==
    IF e.ids # {} THEN e.ids \cap e.active ELSE e.active \cap e.verified

\* SELECT DISTINCT game_account_id FROM redeem_logs WHERE redeem_code_id = ?
GetParticipatedAccountIDs(logs) == {a \in StatAccounts : logs[a] # <<>>}

\* variant of NewAccounts without the participatedMap test
NewAccountsAgain(e, logs) == {a \in e.active : a \in e.verified}

\* processSupplementRedeemJob: acc.IsVerified && !participatedMap[acc.ID]
\* over the accounts of GetActive
NewAccounts(e, logs) ==
    {a \in e.active :
        a \in e.verified /\ a \notin GetParticipatedAccountIDs(logs)}

IsRedeemType(e) == e.type \in {"redeem", "retry_redeem"}

\* the accounts the handler of the job hands to RedeemBatch
HandlerAccounts(e, logs) ==
    IF e.type = "supplement_redeem" THEN NewAccounts(e, logs)
    ELSE RedeemAccounts(e)

\* the handler returns an error before it writes anything: the type is
\* unknown, FindRedeemCodeByID found no row, or processRedeemJob resolved
\* no account
Rejected(e) ==
    \/ e.type \notin {"redeem", "retry_redeem", "supplement_redeem"}
    \/ ~e.codeExists
    \/ IsRedeemType(e) /\ RedeemAccounts(e) = {}

\* processJob after the handler returned: RetryJob on an error,
\* MarkJobCompleted otherwise; an error of either is only logged
FinishJob(failed, persisted) ==
    /\ jobs' = IF ~persisted THEN jobs
               ELSE IF failed THEN RetryJob(jobs, worker.job, HandlerError)
               ELSE MarkJobCompleted(jobs, worker.job.ID)
    /\ worker' = [pc |-> "idle", job |-> NoJob]
    /\ UNCHANGED <<lastId, queue, tickIn, deq, spilled>>

\* the handler returns the error of Rejected
HandlerRejects(persisted) ==
    /\ worker.pc = "run"
    /\ Rejected(env)
    /\ FinishJob(TRUE, persisted)
    /\ handled' = "rejected"
    /\ called' = <<>>
    /\ UNCHANGED <<redeemLogs, logCalls, redeemCode, env>>
    /\ UNCHANGED <<bvars, gvars, ovars, pvars, rvars, cvars>>

\* a query of the handler (FindRedeemCodeByID, GetActive,
\* GetParticipatedAccountIDs) or the first UpdateRedeemCodeStatus returns
\* an error, and so does the handler, before it writes anything
HandlerQueryError(persisted) ==
    /\ worker.pc = "run"
    /\ env.type \in {"redeem", "retry_redeem", "supplement_redeem"}
    /\ FinishJob(TRUE, persisted)
    /\ handled' = "query_error"
    /\ called' = <<>>
    /\ UNCHANGED <<redeemLogs, logCalls, redeemCode, env>>
    /\ UNCHANGED <<bvars, gvars, ovars, pvars, rvars, cvars>>

\* processSupplementRedeemJob finds no new account and returns nil
SupplementNoop(persisted) ==
    /\ worker.pc = "run"
    /\ env.type = "supplement_redeem"
    /\ env.codeExists
    /\ NewAccounts(env, redeemLogs) = {}
    /\ FinishJob(FALSE, persisted)
    /\ handled' = "supplement_noop"
    /\ called' = <<>>
    /\ UNCHANGED <<redeemLogs, logCalls, redeemCode, env>>
    /\ UNCHANGED <<bvars, gvars, ovars, pvars, rvars, cvars>>

\* the handler resolved its accounts and calls RedeemBatch on them;
\* processRedeemJob first marks the code processing
HandlerCallsBatch ==
    LET accounts == HandlerAccounts(env, redeemLogs)
        accs == Ascending(accounts)
    IN  /\ worker.pc = "run"
        /\ bpc = "idle"
        /\ ~Rejected(env)
        /\ accounts # {}
        /\ worker' = [worker EXCEPT !.pc = "batch"]
        /\ redeemCode' = IF IsRedeemType(env)
                         THEN UpdateRedeemCodeStatus(redeemCode, "processing",
                                                     Cardinality(accounts))
                         ELSE redeemCode
        /\ called' = <<accounts>>
        /\ states' = [i \in 1..Len(accs) |-> accountState(accs[i])]
        /\ results' = <<>>
        /\ pending' = Len(accs)
        /\ sinceSwitch' = -1
        /\ bpc' = "loop"
        /\ cur' = 0
        /\ stepRes' = NoResult
        /\ stepFault' = "ok"
        /\ fatalSeen' = FALSE
        /\ UNCHANGED <<jobs, lastId, queue, tickIn, deq, spilled>>
        /\ UNCHANGED <<busyRun, hist, redeemLogs, logCalls, handled, env>>
        /\ UNCHANGED <<gvars, ovars, pvars, rvars, cvars>>

\* the accounts whose result is a success
Succeeded(res) ==
    {res[k].AccountID : k \in {j \in 1..Len(res) : res[j].Success}}

\* RedeemBatch returned: the handler writes one log per result (the writes
\* of wfail return an error, which is only logged), stores the counts
\* (processRedeemJob the ones it counted, processSupplementRedeemJob the
\* ones of GetLogStats) and, in processRedeemJob, marks the code completed.
\* handled records "logged_errors" when the handler returned nil but the
\* error of a write was logged and dropped.
HandlerFinishes(wfail, statsFail, completeFail, persisted) ==
    LET accounts == called[1]
        succ == Succeeded(results)
        logs == ReplaceRedeemLogs(redeemLogs, accounts, succ, wfail)
        st == GetLogStats(logs)
        counted ==
            IF statsFail THEN redeemCode
            ELSE IF IsRedeemType(env)
            THEN UpdateRedeemCodeStats(redeemCode,
                     Cardinality(accounts \cap succ),
                     Cardinality(accounts \ succ), Cardinality(accounts))
            ELSE UpdateRedeemCodeStats(redeemCode, st.success, st.failed,
                                       st.total)
        failed == IsRedeemType(env) /\ completeFail
        logged == wfail \cap accounts # {} \/ statsFail \/ ~persisted
    IN  /\ worker.pc = "batch"
        /\ bpc = "done"
        /\ redeemLogs' = logs
        /\ redeemCode' = IF IsRedeemType(env) /\ ~completeFail
                         THEN UpdateRedeemCodeStatus(counted, "completed",
                                                     Cardinality(accounts))
                         ELSE counted
        /\ handled' = IF failed THEN "redeem_error"
                      ELSE IF logged THEN "logged_errors"
                      ELSE IF IsRedeemType(env) THEN "redeem_ok"
                      ELSE "supplement_ok"
        /\ FinishJob(failed, persisted)
        /\ states' = <<>>
        /\ results' = <<>>
        /\ pending' = 0
        /\ sinceSwitch' = -1
        /\ bpc' = "idle"
        /\ cur' = 0
        /\ stepRes' = NoResult
        /\ stepFault' = "ok"
        /\ fatalSeen' = FALSE
        /\ UNCHANGED <<busyRun, hist, logCalls, env, called>>
        /\ UNCHANGED <<gvars, ovars, pvars, rvars, cvars>>

\* RedeemBatch runs to its return, taken as one step: every account is
\* finalized and has one result, a success for the accounts of succ
RedeemBatchReturns(succ) ==
    /\ worker.pc = "batch"
    /\ bpc = "loop"
    /\ results = <<>>
    /\ states' = [i \in 1..Len(states) |->
                     [states[i] EXCEPT !.finalized = TRUE]]
    /\ results' = [i \in 1..Len(states) |->
                      BatchRedeemResult(states[i],
                          RedeemResult(states[i].acc \in succ, 0, FALSE, ""))]
    /\ pending' = 0
    /\ bpc' = "done"
    /\ UNCHANGED <<sinceSwitch, cur, stepRes, stepFault, fatalSeen, busyRun,
                   hist>>
    /\ UNCHANGED notBatch

NextHandlers ==
    \/ \E persisted \in BOOLEAN : HandlerRejects(persisted)
    \/ \E persisted \in BOOLEAN : HandlerQueryError(persisted)
    \/ \E persisted \in BOOLEAN : SupplementNoop(persisted)
    \/ HandlerCallsBatch
    \/ \E succ \in SUBSET StatAccounts : RedeemBatchReturns(succ)
    \/ \E wfail \in SUBSET StatAccounts :
          \E statsFail, completeFail, persisted \in BOOLEAN :
              HandlerFinishes(wfail, statsFail, completeFail, persisted)

-----------------------------------------------------------------------------
(* The job queue with its worker *)

InitQueue ==
    /\ jobs = [j \in JobIds |-> NoRow]
    /\ lastId = 0
    /\ queue = <<>>
    /\ worker = [pc |-> "idle", job |-> NoJob]
    /\ tickIn = LoaderInterval
    /\ deq = {}
    /\ spilled = {}
    /\ BatchIdle
    /\ GateIdle
    /\ ClientIdle
    /\ PayloadsParse
    /\ PoolRunning
    /\ HandlerIdle
    /\ OcrIdle
    /\ StatsIdle

NextQueue ==
    \/ SubmitRedeemTask
    \/ SubmitSupplementTask
    \/ Advance
    \/ LoaderTick
    \/ LoaderTickReadError
    \/ Dequeue
    \/ MarkProcessing
    \/ MarkProcessingError
    \/ FinishCompleted
    \/ FinishRetry
    \/ FinishPersistError

SpecQueue == InitQueue /\ [][NextQueue]_vars

\* Scheduling assumptions for the progress properties: time passes, the
\* loader's ticker keeps firing and its query eventually succeeds, the worker
\* goroutine keeps running, and its storage writes eventually succeed.
FairQueue ==
    /\ WF_vars(Advance)
    /\ SF_vars(LoaderTick)
    /\ WF_vars(Dequeue)
    /\ SF_vars(MarkProcessing)
    /\ SF_vars(FinishCompleted \/ FinishRetry)

SpecQueueLive == InitQueue /\ [][NextQueue]_vars /\ FairQueue

\* The queue after a restart of the process: the channel is empty, the
\* table holds the pending rows of the earlier run (those of unparsable
\* with a payload that does not parse), and nothing is submitted any more.
InitParse ==
    /\ unparsable \in SUBSET JobIds
    /\ jobs = [j \in JobIds |->
                 [status |-> "pending", retries |-> 0,
                  max_retries |-> RedeemMaxRetries, next_run_in |-> 0,
                  error_message |-> "NULL"]]
    /\ lastId = MaxJobs
    /\ queue = <<>>
    /\ worker = [pc |-> "idle", job |-> NoJob]
    /\ tickIn \in 0..LoaderInterval
    /\ deq = {}
    /\ spilled = {}
    /\ BatchIdle
    /\ GateIdle
    /\ ClientIdle
    /\ PoolRunning
    /\ HandlerIdle
    /\ OcrIdle
    /\ StatsIdle

NextParse ==
    \/ Advance
    \/ LoaderTick
    \/ LoaderTickReadError
    \/ Dequeue
    \/ MarkProcessing
    \/ MarkProcessingError
    \/ FinishCompleted
    \/ FinishRetry
    \/ FinishPersistError

SpecParseLive == InitParse /\ [][NextParse]_vars /\ FairQueue

QueueIdle ==
    /\ jobs = [j \in JobIds |-> NoRow]
    /\ lastId = 0
    /\ queue = <<>>
    /\ worker = [pc |-> "idle", job |-> NoJob]
    /\ tickIn = LoaderInterval
    /\ deq = {}
    /\ spilled = {}

-----------------------------------------------------------------------------
(* One call of RedeemBatch *)

InitBatch ==
    /\ QueueIdle
    /\ GateIdle
    /\ ClientIdle
    /\ PayloadsParse
    /\ PoolRunning
    /\ HandlerIdle
    /\ OcrIdle
    /\ StatsIdle
    /\ \E n \in 1..MaxAccounts : BatchCalled(n)

SpecBatch == InitBatch /\ [][NextBatch]_vars

\* the goroutine running RedeemBatch keeps running
SpecBatchLive == InitBatch /\ [][NextBatch]_vars /\ WF_vars(NextBatch)

-----------------------------------------------------------------------------
(* One call of RedeemBatch with the record of each account's run of 40101 *)

\* number of accounts of the batch whose runs of 40101 are recorded
BusyAccounts == 2

InitBusy ==
    /\ QueueIdle
    /\ GateIdle
    /\ ClientIdle
    /\ PayloadsParse
    /\ PoolRunning
    /\ HandlerIdle
    /\ OcrIdle
    /\ StatsIdle
    /\ \E n \in 1..BusyAccounts :
          /\ states = [i \in 1..n |-> accountState(i)]
          /\ busyRun = [i \in 1..n |-> 0]
          /\ hist = <<>>
          /\ pending = n
    /\ results = <<>>
    /\ sinceSwitch = -1
    /\ bpc = "loop"
    /\ cur = 0
    /\ stepRes = NoResult
    /\ stepFault = "ok"
    /\ fatalSeen = FALSE

SpecBusy == InitBusy /\ [][NextBatch]_vars

-----------------------------------------------------------------------------
(* One call of RedeemBatch with the number of attempts of each account *)

InitAttempts ==
    /\ QueueIdle
    /\ GateIdle
    /\ ClientIdle
    /\ PayloadsParse
    /\ PoolRunning
    /\ HandlerIdle
    /\ OcrIdle
    /\ StatsIdle
    /\ \E n \in 1..BusyAccounts :
          /\ states = [i \in 1..n |-> accountState(i)]
          /\ busyRun = <<>>
          /\ hist = [i \in 1..n |-> [plain |-> 0]]
          /\ pending = n
    /\ results = <<>>
    /\ sinceSwitch = -1
    /\ bpc = "loop"
    /\ cur = 0
    /\ stepRes = NoResult
    /\ stepFault = "ok"
    /\ fatalSeen = FALSE

SpecAttempts == InitAttempts /\ [][NextBatch]_vars

-----------------------------------------------------------------------------
(* RedeemBatch (called by the worker) beside callers of RedeemSingle *)

\* number of accounts of the batch that runs beside the RedeemSingle callers
FlowAccounts == 2

InitFlows ==
    /\ QueueIdle
    /\ GateIdle
    /\ ClientIdle
    /\ PayloadsParse
    /\ PoolRunning
    /\ HandlerIdle
    /\ OcrIdle
    /\ StatsIdle
    /\ \E n \in 1..FlowAccounts : BatchCalled(n)

SpecFlows == InitFlows /\ [][NextBatch \/ NextSingle]_vars

-----------------------------------------------------------------------------
(* The shared GameClient used by an attempt of the batch, by a RedeemSingle *)
(* call and by the account service at the same time                         *)

InitClient ==
    /\ QueueIdle
    /\ BatchIdle
    /\ GateIdle
    /\ rs = NoCall
    /\ client = NewGameClient
    /\ PayloadsParse
    /\ PoolRunning
    /\ HandlerIdle
    /\ OcrIdle
    /\ StatsIdle

SpecClient == InitClient /\ [][NextClient]_vars

-----------------------------------------------------------------------------
(* Stop is called while the worker runs RedeemBatch *)

InitStop ==
    /\ QueueIdle
    /\ GateIdle
    /\ ClientIdle
    /\ PayloadsParse
    /\ PoolRunning
    /\ HandlerIdle
    /\ OcrIdle
    /\ StatsIdle
    /\ \E n \in 1..FlowAccounts : BatchCalled(n)

NextStop == NextBatch \/ StopSignal \/ StopReturn

SpecStop == InitStop /\ [][NextStop]_vars

-----------------------------------------------------------------------------
(* RetryJob on a job the worker is running: job 1 was enqueued with some   *)
(* max_retries, has been retried some number of times and is processing.   *)

\* largest max_retries a caller passes to Enqueue
MaxRetriesArg == 40

InitRetry ==
    /\ \E m \in 0..MaxRetriesArg : \E k \in 0..m :
          /\ jobs = [j \in JobIds |->
                       IF j = 1
                       THEN [status |-> "processing", retries |-> k,
                             max_retries |-> m, next_run_in |-> 0,
                             error_message |-> "NULL"]
                       ELSE NoRow]
          /\ worker = [pc |-> "run",
                       job |-> [ID |-> 1, Retries |-> k, MaxRetries |-> m]]
    /\ lastId = 1
    /\ queue = <<>>
    /\ tickIn = LoaderInterval
    /\ deq = {1}
    /\ spilled = {}
    /\ BatchIdle
    /\ GateIdle
    /\ ClientIdle
    /\ PayloadsParse
    /\ PoolRunning
    /\ HandlerIdle
    /\ OcrIdle
    /\ StatsIdle

NextRetry == FinishRetry

SpecRetry == InitRetry /\ [][NextRetry]_vars

-----------------------------------------------------------------------------
(* The job handlers over one redeem code *)

InitStats ==
    /\ QueueIdle
    /\ BatchIdle
    /\ GateIdle
    /\ ClientIdle
    /\ PayloadsParse
    /\ PoolRunning
    /\ HandlerIdle
    /\ OcrIdle
    /\ StatsIdle

SpecStats == InitStats /\ [][NextStats]_vars

\* The commands on redeem_logs alone
InitLogs == InitStats

SpecLogs == InitLogs /\ [][NextLogs]_vars

-----------------------------------------------------------------------------
(* One job in the hands of the worker, after MarkJobProcessing: its type,  *)
(* the redeem code and the accounts are any, and an earlier redeem job may *)
(* have left its logs and counts.                                          *)

Envs ==
    [type : JobTypes, codeExists : BOOLEAN, active : SUBSET StatAccounts,
     verified : SUBSET StatAccounts, ids : SUBSET StatAccounts]

\* max_retries of the job: what the submitting handler passes to Enqueue
MaxRetriesOf(type) ==
    IF type = "supplement_redeem" THEN SupplementMaxRetries
    ELSE RedeemMaxRetries

InitHandlers ==
    /\ env \in Envs
    /\ called = <<>>
    /\ \E k \in 0..MaxRetriesOf(env.type) :
          /\ jobs = [j \in JobIds |->
                       IF j = 1
                       THEN [status |-> "processing", retries |-> k,
                             max_retries |-> MaxRetriesOf(env.type),
                             next_run_in |-> 0, error_message |-> "NULL"]
                       ELSE NoRow]
          /\ worker = [pc |-> "run",
                       job |-> [ID |-> 1, Retries |-> k,
                                MaxRetries |-> MaxRetriesOf(env.type)]]
    /\ lastId = 1
    /\ queue = <<>>
    /\ tickIn = LoaderInterval
    /\ deq = {1}
    /\ spilled = {}
    /\ BatchIdle
    /\ GateIdle
    /\ ClientIdle
    /\ PayloadsParse
    /\ PoolRunning
    /\ OcrIdle
    /\ \E prior \in SUBSET StatAccounts : \E priorSucc \in SUBSET prior :
          /\ redeemLogs = ReplaceRedeemLogs([a \in StatAccounts |-> <<>>],
                                            prior, priorSucc, {})
          /\ redeemCode =
                IF prior = {}
                THEN [status |-> "pending", success_count |-> 0,
                      failed_count |-> 0, total_accounts |-> 0]
                ELSE [status |-> "completed",
                      success_count |-> Cardinality(priorSucc),
                      failed_count |-> Cardinality(prior \ priorSucc),
                      total_accounts |-> Cardinality(prior)]
    /\ logCalls = <<>>
    /\ handled = "none"

SpecHandlers == InitHandlers /\ [][NextHandlers]_vars

-----------------------------------------------------------------------------
(* A redeem job for a code without logs, all accounts active and verified: *)
(* processRedeemJob has marked the code processing and called RedeemBatch, *)
(* which runs attempt by attempt with the record of each account.          *)

InitRedeemJob ==
    /\ env = DefaultEnv
    /\ called = <<StatAccounts>>
    /\ jobs = [j \in JobIds |->
                 IF j = 1
                 THEN [status |-> "processing", retries |-> 0,
                       max_retries |-> RedeemMaxRetries,
                       next_run_in |-> 0, error_message |-> "NULL"]
                 ELSE NoRow]
    /\ worker = [pc |-> "batch",
                 job |-> [ID |-> 1, Retries |-> 0,
                          MaxRetries |-> RedeemMaxRetries]]
    /\ lastId = 1
    /\ queue = <<>>
    /\ tickIn = LoaderInterval
    /\ deq = {1}
    /\ spilled = {}
    /\ states = [i \in StatAccounts |-> accountState(i)]
    /\ busyRun = <<>>
    /\ hist = [i \in StatAccounts |-> NoHist]
    /\ results = <<>>
    /\ pending = NumStatAccounts
    /\ sinceSwitch = -1
    /\ bpc = "loop"
    /\ cur = 0
    /\ stepRes = NoResult
    /\ stepFault = "ok"
    /\ fatalSeen = FALSE
    /\ GateIdle
    /\ ClientIdle
    /\ PayloadsParse
    /\ PoolRunning
    /\ OcrIdle
    /\ redeemLogs = [a \in StatAccounts |-> <<>>]
    /\ logCalls = <<>>
    /\ redeemCode = UpdateRedeemCodeStatus(
                        [status |-> "pending", success_count |-> 0,
                         failed_count |-> 0, total_accounts |-> 0],
                        "processing", NumStatAccounts)
    /\ handled = "none"

NextRedeemJob ==
    \/ NextBatch
    \/ \E wfail \in SUBSET StatAccounts :
          \E statsFail, completeFail, persisted \in BOOLEAN :
              HandlerFinishes(wfail, statsFail, completeFail, persisted)

SpecRedeemJob == InitRedeemJob /\ [][NextRedeemJob]_vars

-----------------------------------------------------------------------------
(* The manager main builds from its configuration, started and stopped    *)
(* once.                                                                   *)

InitPool ==
    /\ QueueIdle
    /\ BatchIdle
    /\ GateIdle
    /\ ClientIdle
    /\ PayloadsParse
    /\ HandlerIdle
    /\ OcrIdle
    /\ StatsIdle
    /\ pool = "new"
    /\ \E configured \in 0..MaxConcurrency :
          manager = [configured |-> configured, workers |-> <<>>,
                     served |-> 0]

SpecPool == InitPool /\ [][NextPool]_vars

-----------------------------------------------------------------------------
(* The OCR key manager after main loaded the usable keys *)

InitOcr ==
    /\ QueueIdle
    /\ BatchIdle
    /\ GateIdle
    /\ ClientIdle
    /\ PayloadsParse
    /\ PoolRunning
    /\ HandlerIdle
    /\ ocrKeys \in [KeyIds -> KeyRows]
    /\ mkeys = Reload(ListUsable(ocrKeys)).keys
    /\ mtotal = Reload(ListUsable(ocrKeys)).total
    /\ ocall = OcrReturned("none")
    /\ otried = <<>>
    /\ picks = NoPicks
    /\ exhausted = {}
    /\ clean = TRUE
    /\ StatsIdle

SpecOcr == InitOcr /\ [][NextOcr]_vars

-----------------------------------------------------------------------------
(* Properties of the redemption gate *)

\* the redemption flows in progress: the batch, and each RedeemSingle
FlowsInFlight ==
    (IF BatchRunning THEN 1 ELSE 0)
        + Cardinality({c \in SingleCallers : single[c] = "flow"})

\* C1: at any time at most one full redemption flow is executing - no
\* RedeemBatch overlaps a RedeemSingle and no two executions of either
\* kind overlap.
C1_AtMostOneFlow == FlowsInFlight <= 1

-----------------------------------------------------------------------------
(* Properties of the job queue *)

InQueue(id) == \E i \in 1..Len(queue) : queue[i].ID = id

\* the status changes the job lifecycle allows ("none": the row is created)
LifecycleStep(old, new) ==
    \/ new = old
    \/ old = "none" /\ new = "pending"
    \/ old = "pending" /\ new = "processing"
    \/ old = "processing" /\ new \in {"completed", "pending", "failed"}

\* C2: every change of a job's persisted status follows
\* pending -> processing -> {completed, pending (retry), failed}; in
\* particular a completed or failed job is never set to processing again.
C2_StatusLifecycle ==
    [][\A j \in JobIds : LifecycleStep(jobs[j].status, jobs'[j].status)]_vars

\* C3: in every reachable state each job's persisted retries counter is at
\* most its max_retries.
C3_RetriesWithinMax ==
    \A j \in JobIds : jobs[j].status # "none" => jobs[j].retries <= jobs[j].max_retries

C5_ProcessingIsReleased ==
    \A j \in JobIds :
        (jobs[j].status = "processing" /\ worker.job.ID # j)
            ~> (worker.job.ID = j)

\* job j is pending with next_run_at <= now
Due(j) == jobs[j].status = "pending" /\ jobs[j].next_run_in <= 0

\* C8: the worker receives jobs in creation order among the due pending
\* jobs: when it has just received a due pending job B, no job A created
\* before B is pending and due.
C8_FifoAmongDue ==
    (worker.pc = "mark" /\ Due(worker.job.ID)) =>
        \A a \in JobIds : a < worker.job.ID => ~Due(a)

-----------------------------------------------------------------------------
(* Properties of RedeemBatch *)

\* C6: for every sequence of attempt outcomes RedeemBatch eventually returns
\* with every account finalized.
C6_BatchTerminates == <>(bpc = "done" /\ \A i \in 1..Len(states) : states[i].finalized)

\* C7: an attempt whose last Login, GetCaptcha or RedeemCode call failed in
\* transport or parsing (send error or timeout, non-200 status, unreadable or
\* undecodable body) is classified by the scheduler as server busy (40101).
C7_TransportFailureIsServerBusy ==
    (bpc = "classify" /\ stepFault \in TransportFailures) => stepRes.ErrCode = 40101

\* the step that starts an attempt, pickNext having chosen cur'
StartsAttempt == bpc = "loop" /\ bpc' = "attempt"

\* the accounts pickNext may choose from
Open(i) == ~states[i].finalized

C10_FatalStopsBatch == bpc = "attempt" => ~fatalSeen

-----------------------------------------------------------------------------
(* Properties of the OCR key manager *)

\* C11: with two loaded keys of base weights 3 and 1 that have always
\* succeeded, after every 4n selections since the Reload the weight-3 key
\* has been selected 3n times and the weight-1 key n times, whatever the
\* quotas of the two keys.
C11_ThreeToOne ==
    \A a, b \in 1..Len(mkeys) :
        (Len(mkeys) = 2 /\ mkeys[a].key.Weight = 3 /\ mkeys[b].key.Weight = 1
            /\ clean /\ TotalPicks % 4 = 0)
        => /\ picks[mkeys[a].key.ID] = 3 * (TotalPicks \div 4)
           /\ picks[mkeys[b].key.ID] = TotalPicks \div 4

\* C12: within one RecognizeCaptcha call no key is attempted more than once.
C12_EachKeyOnce ==
    \A i, j \in 1..Len(otried) : i # j => otried[i] # otried[j]

\* C13: once the quota/auth callback has fired for a key, a later
\* RecognizeCaptcha call does not select it before a Reload has loaded it
\* again (the first selection of a call is examined: callbacks of the same
\* call come after it).
C13_ExhaustedKeyNotSelected ==
    (ocall.pc = "try" /\ ocall.i = 0) => ocall.wk \notin exhausted

-----------------------------------------------------------------------------
(* Further properties of RedeemBatch *)

\* C17: an account whose attempts returned 40101 twice in a row and now
\* return it a third time is finalized (as failed) when that third result
\* is classified, and a finalized account is not attempted again.
C17_ThirdBusyFinalizes ==
    [][/\ (bpc = "classify" /\ busyRun # <<>> /\ busyRun[cur] = 2
            /\ stepRes.ErrCode = 40101)
          => /\ bpc' = "loop"
             /\ states'[cur].finalized
             /\ results' = Append(results,
                    [AccountID |-> states[cur].acc, Result |-> "failed",
                     Success |-> FALSE])
       /\ StartsAttempt => ~states[cur'].finalized]_vars

\* the third 40101 in a row of an account is about to be classified
C17_Witness ==
    /\ busyRun # <<>>
    /\ bpc = "classify"
    /\ busyRun[cur] = 2
    /\ stepRes.ErrCode = 40101
    /\ states[cur].cooldowns = 2

\* C18: an account whose attempt returns a fatal business code (40007 or
\* 40014) at login or at claim is finalized as failed when that attempt is
\* classified, whatever its cooldowns and attemptsInCycle; a finalized
\* account stays finalized and is never attempted again.
C18_FatalFinalizes ==
    [][/\ (bpc = "classify" /\ stepRes.ErrCode \in {40007, 40014}
            /\ stepRes.Stage \in {"login", "redeem"})
          => /\ stepRes.IsFatal
             /\ states'[cur].finalized
             /\ results' = Append(results,
                    [AccountID |-> states[cur].acc, Result |-> "failed",
                     Success |-> FALSE])
       /\ \A i \in 1..Len(states) : states[i].finalized => states'[i].finalized
       /\ StartsAttempt => ~states[cur'].finalized]_vars

\* a fatal code at login is being classified for an account that has one
\* cooldown behind it and has used attempts of its cycle, while another
\* account is already finalized
C18_Witness ==
    /\ bpc = "classify"
    /\ stepRes.ErrCode = 40014
    /\ stepRes.Stage = "login"
    /\ states[cur].cooldowns >= 1
    /\ states[cur].attemptsInCycle >= 1
    /\ \E i \in 1..Len(states) : states[i].finalized

\* C21: when RedeemBatch returns, results holds exactly one entry for each
\* input account, and an entry appended for an account is a success exactly
\* when the attempt that finalized it (its last one) succeeded.
C21_OneResultPerAccount ==
    [][/\ bpc' = "done"
          => /\ Len(results') = Len(states')
             /\ \A i \in 1..Len(states') :
                   Cardinality({k \in 1..Len(results') :
                       results'[k].AccountID = states'[i].acc}) = 1
       /\ (bpc = "classify" /\ results' # results)
          => /\ Len(results') = Len(results) + 1
             /\ results'[Len(results')].AccountID = states[cur].acc
             /\ results'[Len(results')].Result = "success" <=> stepRes.Success
             /\ results'[Len(results')].Result \in {"success", "failed"}
             /\ SubSeq(results', 1, Len(results)) = results]_vars

\* RedeemBatch returned for two accounts, one a success and one failed
C21_Witness ==
    /\ bpc = "done"
    /\ Len(states) = 2
    /\ \E k \in 1..Len(results) : results[k].Result = "success"
    /\ \E k \in 1..Len(results) : results[k].Result = "failed"

\* C22: once Stop is signalled every suspension is interrupted: a running
\* batch neither sleeps on (for the earliest ready account or a backoff)
\* nor starts a further attempt.
C22_StopInterruptsBatch ==
    [][pool = "stopping" => ~(StartsAttempt \/ (bpc = "loop" /\ bpc' = "loop"))]_vars

\* the loop of RedeemBatch slept (time.Sleep(wait)) and went round again
SleepStep == bpc = "loop" /\ bpc' = "loop" /\ states' # states

\* Ready(i): account i is open and its nextReadyAt is not after now
Ready(i) == Open(i) /\ states[i].nextReadyIn <= 0

\* A (account 1) has only ever been cooled down by 40101 results, and B
\* (account 2) is finalized as a success, the only result so far
ScenarioAB ==
    /\ Len(states) = 2
    /\ busyRun # <<>>
    /\ Open(1)
    /\ states[1].cooldowns >= 1
    /\ busyRun[1] = states[1].cooldowns
    /\ results = <<[AccountID |-> 2, Result |-> "success", Success |-> TRUE]>>

StartsSingle == \E c \in SingleCallers : single[c] = "idle" /\ single'[c] = "flow"

\* less than 3 s have passed since the batch's last attempt ended
BatchJustAttempted == sinceSwitch >= 0 /\ sinceSwitch < MinSwitchDelayTicks

\* C19: two consecutive attempts against the game API are at least 3 s
\* apart: an attempt of the batch starts 3 s or more after its previous
\* one ended, and an attempt of another flow (RedeemSingle) starts neither
\* during an attempt of the batch nor within 3 s after it.
C19_AttemptsSpaced ==
    [][/\ StartsAttempt => ~BatchJustAttempted'
       /\ StartsSingle => (bpc # "attempt" /\ ~BatchJustAttempted)]_vars

-----------------------------------------------------------------------------
(* Properties of RetryJob *)


\* a step in which RetryJob persisted its decision for the running job
RetryJobStep ==
    /\ worker.pc = "run"
    /\ worker'.pc = "idle"
    /\ jobs' # jobs
    /\ jobs'[worker.job.ID].status # "completed"

\* min(2^k, 60)
CappedPow2(k) == IF k < 6 THEN Pow2(k) ELSE 60

\* C15: whenever RetryJob schedules a retry of a job retried k times
\* (k < max_retries, whatever max_retries the caller supplied), the delay
\* added to the current time is min(2^k s, 60 s), and no smaller retry
\* count gets a longer delay.
C15_BackoffDelay ==
    [][(RetryJobStep /\ worker.job.Retries < worker.job.MaxRetries)
        => /\ jobs'[worker.job.ID].next_run_in = CappedPow2(worker.job.Retries)
           /\ \A h \in 0..worker.job.Retries :
                 RetryDelay(h) <= RetryDelay(worker.job.Retries)]_vars

\* C16: RetryJob on a job with retries < max_retries leaves the row pending
\* with retries increased by exactly 1 and next_run_at = now + delay;
\* on a job with retries >= max_retries it leaves the row failed with the
\* error message and retries unchanged.
C16_RetryJobEffect ==
    [][RetryJobStep
        => LET id == worker.job.ID
           IN  IF worker.job.Retries < worker.job.MaxRetries
               THEN /\ jobs'[id].status = "pending"
                    /\ jobs'[id].retries = jobs[id].retries + 1
                    /\ jobs'[id].next_run_in = RetryDelay(worker.job.Retries)
               ELSE /\ jobs'[id].status = "failed"
                    /\ jobs'[id].error_message = MaxRetriesMessage(HandlerError)
                    /\ jobs'[id].retries = jobs[id].retries
                    /\ jobs'[id].next_run_in = jobs[id].next_run_in]_vars

\* a job that ran out of retries was failed with the message, its retry
\* count still at max_retries
C16_Witness ==
    \E j \in JobIds :
        /\ jobs[j].status = "failed"
        /\ jobs[j].max_retries > 0
        /\ jobs[j].retries = jobs[j].max_retries
        /\ jobs[j].error_message = MaxRetriesMessage(HandlerError)

-----------------------------------------------------------------------------
(* Properties of the job handlers *)

\* C14: once a redeem or retry_redeem handler has returned without error,
\* the success, failed and total counts stored on the redeem code are the
\* numbers of success rows, failed rows and all rows of its outcome log.
C14_CountsMatchLog ==
    handled = "redeem_ok" =>
        /\ redeemCode.success_count = GetLogStats(redeemLogs).success
        /\ redeemCode.failed_count = GetLogStats(redeemLogs).failed
        /\ redeemCode.total_accounts = GetLogStats(redeemLogs).total

\* C25: two calls of ReplaceRedeemLog in a row for the same (redeem code,
\* account) pair leave exactly one row of that pair, and the row holds the
\* result of the second call.
C25_ReplaceTwiceOneRow ==
    (Len(logCalls) = 2 /\ logCalls[1].acc = logCalls[2].acc)
    => redeemLogs[logCalls[2].acc] = <<logCalls[2].result>>

\* the pair was replaced twice with different results
C25_Witness ==
    /\ Len(logCalls) = 2
    /\ logCalls[1].acc = logCalls[2].acc
    /\ logCalls[1].result # logCalls[2].result
    /\ handled = "log_replaced"

-----------------------------------------------------------------------------
(* Properties of processJob and its handlers *)

\* the job of the worker has an unknown type, or its redeem code is missing,
\* or it is a redeem/retry_redeem job with no eligible account
NoHandlerWork ==
    \/ env.type \notin {"redeem", "retry_redeem", "supplement_redeem"}
    \/ ~env.codeExists
    \/ /\ env.type \in {"redeem", "retry_redeem"}
       /\ \/ env.ids # {} /\ env.ids \cap env.active = {}
          \/ env.ids = {} /\ env.active \cap env.verified = {}

\* the row of the job after RetryJob wrote it: failed with retries
\* unchanged when job.Retries >= job.MaxRetries, else pending with one more
\* retry and a positive delay
Retried(before, job, after) ==
    IF job.Retries >= job.MaxRetries
    THEN after.status = "failed" /\ after.retries = before.retries
    ELSE /\ after.status = "pending"
         /\ after.retries = before.retries + 1
         /\ after.next_run_in > 0

\* C23: a job with an unknown type, a missing redeem code or no eligible
\* account is never marked completed and never reaches RedeemBatch; its
\* dispatch ends in RetryJob, whose write reschedules the job with a delay
\* while retries < max_retries and marks it failed otherwise (a RetryJob
\* whose write returns an error leaves the row as it is).
C23_RejectedJobIsRetried ==
    [][NoHandlerWork
       => /\ \A j \in JobIds : jobs'[j].status # "completed"
          /\ called' = <<>>
          /\ (worker.pc = "run" /\ worker' # worker)
             => /\ worker'.pc = "idle"
                /\ handled' \in {"rejected", "query_error"}
                /\ \/ jobs' = jobs
                   \/ Retried(jobs[worker.job.ID], worker.job,
                              jobs'[worker.job.ID])]_vars

\* C23 as stated, for every job type: the dispatch of a job with an unknown
\* type, a missing redeem code or no eligible account does not mark the job
\* completed.
C23_NoWorkNeverCompleted ==
    [][(/\ worker.pc = "run"
        /\ \/ NoHandlerWork
           \/ /\ env.type = "supplement_redeem"
              /\ {a \in env.active \cap env.verified :
                     redeemLogs[a] = <<>>} = {})
       => jobs'[worker.job.ID].status # "completed"]_vars

\* a redeem job without an eligible account was rescheduled for the last
\* time
C23_Witness ==
    /\ NoHandlerWork
    /\ env.type = "redeem"
    /\ env.codeExists
    /\ env.active # {}
    /\ handled = "rejected"
    /\ worker.pc = "idle"
    /\ jobs[1].status = "pending"
    /\ jobs[1].retries = jobs[1].max_retries

\* the active and verified accounts without a row in redeem_logs
Unattempted == {a \in env.active \cap env.verified : redeemLogs[a] = <<>>}

\* C24: a supplement_redeem job hands RedeemBatch exactly the active and
\* verified accounts without an outcome row; when there is none (and the
\* queries succeed) the handler returns nil without calling RedeemBatch and
\* leaves the outcome rows and the counts and status of the code unchanged.
C24_SupplementOnlyNewAccounts ==
    [][(env.type = "supplement_redeem" /\ worker.pc = "run"
        /\ worker' # worker)
       => /\ worker'.pc = "batch"
             => /\ Unattempted # {}
                /\ called' = <<Unattempted>>
                /\ {states'[i].acc : i \in 1..Len(states')} = Unattempted
          /\ (Unattempted = {} /\ env.codeExists
              /\ handled' # "query_error")
             => /\ handled' = "supplement_noop"
                /\ called' = <<>>
                /\ bpc' = "idle"
                /\ redeemLogs' = redeemLogs
                /\ redeemCode' = redeemCode
                /\ jobs'[worker.job.ID].status \in {"completed", "processing"}
                /\ jobs'[worker.job.ID].retries = jobs[worker.job.ID].retries]_vars

\* a supplement job found every active and verified account logged already
C24_Witness ==
    /\ env.type = "supplement_redeem"
    /\ handled = "supplement_noop"
    /\ env.active \cap env.verified # {}
    /\ Unattempted = {}
    /\ called = <<>>
    /\ jobs[1].status = "completed"

\* RedeemBatch returned after account 1 succeeded on its first attempt and
\* account 2 on its third, after two captcha results (40102/40103)
TwoAccountScenario ==
    /\ worker.pc = "batch"
    /\ bpc = "done"
    /\ called = <<{1, 2}>>
    /\ Succeeded(results) = {1, 2}
    /\ hist # <<>>
    /\ hist[1] = [tries |-> 1, captcha |-> 0, often |-> 0]
    /\ hist[2] = [tries |-> 3, captcha |-> 2, often |-> 0]

\* C26: a redeem job over 2 accounts in which account 1 succeeds at once and
\* account 2 succeeds on its third attempt after two captcha errors ends
\* (no write having failed) with the code completed, success_count 2,
\* failed_count 0, one success row per account and the job completed.
C26_TwoAccountsRedeemed ==
    [][(TwoAccountScenario /\ handled' = "redeem_ok")
       => /\ redeemCode' = [status |-> "completed", success_count |-> 2,
                            failed_count |-> 0, total_accounts |-> 2]
          /\ redeemLogs' = [a \in StatAccounts |->
                               IF a \in {1, 2} THEN <<"success">> ELSE <<>>]
          /\ jobs'[1].status = "completed"
          /\ worker'.pc = "idle"]_vars

\* the handler has returned from that scenario
C26_Witness ==
    /\ handled = "redeem_ok"
    /\ worker.pc = "idle"
    /\ hist # <<>>
    /\ hist[1] = [tries |-> 1, captcha |-> 0, often |-> 0]
    /\ hist[2] = [tries |-> 3, captcha |-> 2, often |-> 0]
    /\ redeemCode.success_count = 2
    /\ jobs[1].status = "completed"

\* the attempt being classified returned 40102 or 40103
CaptchaResult ==
    /\ bpc = "classify"
    /\ hist # <<>>
    /\ stepRes.ErrCode \in {40102, 40103}
    /\ ~stepRes.Success
    /\ ~stepRes.IsFatal

\* the scheduler counts a cooldown for the account of this attempt
Cooled == Classified(states[cur], stepRes).cooldowns > states[cur].cooldowns

\* C29 as stated: an account is folded into a cooldown by its third 40102 or
\* 40103 result since its last cooldown, whatever 40100 results came between.
C29_ThreeCaptchaResults ==
    [][(CaptchaResult /\ Cooled) => hist[cur].captcha + 1 = 3]_vars

\* C29: a 40100 result never folds the account into a cooldown, but it is
\* counted: a 40102/40103 result folds the account into a cooldown exactly
\* when the 40100, 40102 and 40103 results since the account's last
\* cooldown, this one included, are 3 or more.
C29_OftenCountsTowardCeiling ==
    [][/\ CaptchaResult
          => (Cooled <=> hist[cur].captcha + hist[cur].often + 1 >= 3)
       /\ (bpc = "classify" /\ stepRes.ErrCode = 40100 /\ ~stepRes.Success
           /\ ~stepRes.IsFatal)
          => /\ ~Cooled
             /\ bpc' = "loop" => ~states'[cur].finalized]_vars

\* the first 40102/40103 result after two 40100 results is a cooldown
C29_Witness ==
    /\ CaptchaResult
    /\ Cooled
    /\ hist[cur].often = 2
    /\ hist[cur].captcha = 0

-----------------------------------------------------------------------------
(* Further properties of the OCR key manager *)

\* the rows Reload is to keep: active, with quota, of positive weight and
\* of a registered provider
Eligible(tbl) ==
    {k \in KeyIds : /\ tbl[k].is_active
                    /\ tbl[k].has_quota
                    /\ tbl[k].weight > 0
                    /\ getOCRProvider(tbl[k].provider)}

\* every row of the table as a list of keys
AllKeys(tbl) == [i \in KeyIds |-> OCRKey(tbl, i)]

\* C27: a Reload leaves in m.keys exactly the supplied keys that are active,
\* have quota, have a positive weight and a registered provider (for the
\* list the callers supply and for the list of all rows), and pick returns
\* a key of m.keys and leaves the set as it is.
C27_SelectionSet ==
    [][/\ (OcrQuotaError \/ ReloadUsable)
          => LoadedIds(mkeys') = Eligible(ocrKeys')
       /\ LoadedIds(Reload(AllKeys(ocrKeys')).keys) = Eligible(ocrKeys')
       /\ (ocall.pc = "loop" /\ ocall'.pc = "try")
          => /\ ocall'.wk \in LoadedIds(mkeys)
             /\ LoadedIds(mkeys') = LoadedIds(mkeys)]_vars

\* the first selection after a Reload that dropped a key without quota
C27_Witness ==
    /\ ocall.pc = "try"
    /\ TotalPicks = 1
    /\ picks[ocall.wk] = 1
    /\ Len(mkeys) = 1
    /\ LoadedIds(mkeys) = Eligible(ocrKeys)
    /\ \E k \in KeyIds : ~ocrKeys[k].has_quota /\ ocrKeys[k].is_active

-----------------------------------------------------------------------------
(* Properties of the worker pool *)

-----------------------------------------------------------------------------
(* Further properties of the job queue *)

\* C30: a pending job that is due and whose payload parses is eventually
\* sent to the channel (and so received by the worker), whatever unparsable
\* rows are pending beside it.
C30_ParsableJobIsLoaded ==
    \A j \in JobIds :
        (j \notin unparsable /\ jobs[j].status = "pending"
            /\ jobs[j].next_run_in <= 0)
        ~> (j \in deq \/ \E i \in 1..Len(queue) : queue[i].ID = j)

-----------------------------------------------------------------------------
(* Effective weights and accumulators of the OCR key manager *)

\* key a of m.keys has the larger remaining-quota fraction and with it the
\* larger effective weight
Fuller(a, b) ==
    /\ mkeys[a].key.MonthlyQuota > 0
    /\ mkeys[b].key.MonthlyQuota > 0
    /\ mkeys[a].key.RemainingQuota * mkeys[b].key.MonthlyQuota
          > mkeys[b].key.RemainingQuota * mkeys[a].key.MonthlyQuota
    /\ effWeight(mkeys[a].key) > effWeight(mkeys[b].key)

\* C31: of two loaded keys with the same base weight, the key with the
\* larger remaining-quota fraction (and so the larger effective weight) has
\* been selected more often than the other after a run of MaxPicks
\* selections since the Reload.
C31_FullerKeySelectedMore ==
    \A a, b \in 1..Len(mkeys) :
        (/\ Len(mkeys) = 2
         /\ mkeys[a].key.Weight = mkeys[b].key.Weight
         /\ Fuller(a, b)
         /\ TotalPicks = MaxPicks)
        => picks[mkeys[a].key.ID] > picks[mkeys[b].key.ID]

\* the sum of the accumulators (current) of the loaded keys from index i on
RECURSIVE SumCurrent(_, _)
SumCurrent(keys, i) ==
    IF i > Len(keys) THEN 0 ELSE keys[i].current + SumCurrent(keys, i + 1)

\* C39: after every pick (and after a Reload, which zeroes them) the
\* accumulators of the loaded keys sum to 0 and each is, in absolute value,
\* at most the total weight m.total, for every loaded key set and every
\* quota configuration.
C39_AccumulatorsBalanced ==
    /\ SumCurrent(mkeys, 1) = 0
    /\ \A i \in 1..Len(mkeys) :
          /\ mkeys[i].current <= mtotal
          /\ -mkeys[i].current <= mtotal

-----------------------------------------------------------------------------
(* The classification of an attempt's result in RedeemBatch *)

\* the entry RedeemBatch appends for the account of this attempt when it
\* gives the account up
FailedEntry ==
    [AccountID |-> states[cur].acc, Result |-> "failed", Success |-> FALSE]

\* C32: a 40102/40103 result increments attemptsInCycle.  If that makes it
\* 3, which the third such result since the account's last cooldown always
\* does, the account enters a cooldown: cooldowns + 1, attemptsInCycle 0 and
\* the next attempt not before 60 s later, or, with cooldowns now 3, it is
\* finalized as failed.  Otherwise its next attempt is not before 3 s
\* later.  An attempt starts only for an account whose nextReadyAt has come.
C32_CaptchaResultClassified ==
    [][/\ CaptchaResult
          => LET n == states[cur].attemptsInCycle + 1
                 gaveUp == states[cur].cooldowns + 1 >= MaxCooldowns
             IN  /\ bpc' = "loop"
                 /\ Cooled <=> n >= MaxAttemptsInCycle
                 /\ hist[cur].captcha + 1 >= 3 => Cooled
                 /\ (Cooled /\ gaveUp)
                    => /\ states'[cur].finalized
                       /\ results' = Append(results, FailedEntry)
                 /\ (Cooled /\ ~gaveUp)
                    => /\ ~states'[cur].finalized
                       /\ results' = results
                       /\ states'[cur].cooldowns = states[cur].cooldowns + 1
                       /\ states'[cur].attemptsInCycle = 0
                       /\ states'[cur].nextReadyIn = CooldownTicks
                 /\ ~Cooled
                    => /\ ~states'[cur].finalized
                       /\ results' = results
                       /\ states'[cur].cooldowns = states[cur].cooldowns
                       /\ states'[cur].attemptsInCycle = n
                       /\ states'[cur].nextReadyIn = ShortBackoffTicks
       /\ StartsAttempt => states[cur'].nextReadyIn <= 0]_vars

\* the third 40102/40103 result of an account since its cooldown, which
\* was its first, with no 40100 between
C32_Witness ==
    /\ CaptchaResult
    /\ hist[cur].captcha = 2
    /\ hist[cur].often = 0
    /\ states[cur].cooldowns = 1
    /\ states[cur].attemptsInCycle = 2

\* the attempt being classified ended with a result the scheduler has no
\* case for: no success, not fatal, none of 40100..40103
OtherResult ==
    /\ bpc = "classify"
    /\ ~stepRes.Success
    /\ ~stepRes.IsFatal
    /\ stepRes.ErrCode \notin {40100, 40101, 40102, 40103}

\* C33: a result that is neither success, fatal, 40101, 40102/40103 nor
\* 40100 finalizes the account as failed when it is classified, whatever
\* its counters; the account stays finalized and no later attempt of the
\* batch is for a finalized account.
C33_OtherResultFinalizes ==
    [][/\ OtherResult
          => /\ bpc' = "loop"
             /\ states'[cur].finalized
             /\ pending' = pending - 1
             /\ results' = Append(results, FailedEntry)
       /\ \A i \in 1..Len(states) : states[i].finalized => states'[i].finalized
       /\ StartsAttempt => ~states[cur'].finalized]_vars

\* an unclassified code at the claim is being classified for an account
\* that has a cooldown behind it, beside an account already finalized
C33_Witness ==
    /\ OtherResult
    /\ stepRes.ErrCode = 40008
    /\ stepRes.Stage = "redeem"
    /\ states[cur].cooldowns >= 1
    /\ \E i \in 1..Len(states) : states[i].finalized

\* the attempt being classified returned 40100
OftenResult ==
    /\ bpc = "classify"
    /\ stepRes.ErrCode = 40100
    /\ ~stepRes.Success
    /\ ~stepRes.IsFatal

\* C40: in any batch an account's cooldown count never exceeds 3 (also at
\* the increment that finalizes it), and an account none of whose attempts
\* returned 40100 has been attempted at most 9 times, the attempt being
\* classified included.
C40_CooldownsAndAttemptsBounded ==
    /\ \A i \in 1..Len(states) :
          /\ states[i].cooldowns <= MaxCooldowns
          /\ hist[i].plain <= MaxCooldowns * MaxAttemptsInCycle
    /\ bpc = "classify"
       => /\ Classified(states[cur], stepRes).cooldowns <= MaxCooldowns
          /\ (hist[cur].plain >= 0 /\ ~OftenResult)
             => hist[cur].plain + 1 <= MaxCooldowns * MaxAttemptsInCycle

\* the ninth attempt of an account, all without 40100, is being classified
\* and brings its third cooldown
C40_Witness ==
    /\ bpc = "classify"
    /\ hist[cur].plain = 8
    /\ ~OftenResult
    /\ Classified(states[cur], stepRes).cooldowns = MaxCooldowns

-----------------------------------------------------------------------------
(* Properties of RedeemSingle and of the shared GameClient *)

\* C34: in RedeemSingle, when the third (last) attempt failed with 40102 or
\* 40103 at the claim and the re-login after the 60 s cooldown of the
\* fallback succeeds, the call goes on to one more captcha-and-claim
\* attempt: its next request is a GetCaptcha.
C34_FallbackGrantsAttempt ==
    [][(/\ rs.pc = "relogin"
        /\ rs.why = "captcha_error"
        /\ rs.attempt = SingleMaxRetries
        /\ rs'.relogin = "ok")
       => rs'.pc = "captcha"]_vars

\* C36: the GetCaptcha and RedeemCode requests of an attempt of the batch
\* for account A are sent with A's fid, whatever Login calls RedeemSingle,
\* CreateAccount and VerifyAccount make on the shared client meanwhile.
C36_RequestsCarryOwnFid ==
    \A i \in 1..Len(client.sent) : client.sent[i] = client.acc

-----------------------------------------------------------------------------
(* Further properties of the job queue *)

\* C35: the channel never holds two copies of the same job, and a job the
\* worker has received and not finished has no further copy in the channel:
\* a job pushed by Enqueue or by a loader tick is not pushed again by a
\* later loader tick while it is still pending, so its handler is not run
\* twice for one pending period.
C35_NoSecondCopy ==
    /\ \A i, j \in 1..Len(queue) : i # j => queue[i].ID # queue[j].ID
    /\ \A i \in 1..Len(queue) : queue[i].ID # worker.job.ID

\* C37: the handler of a job that RetryJob has put back to pending is not
\* started again (MarkJobProcessing, then the handler) before the persisted
\* next_run_at, the time of the retry plus the backoff delay, has come.
C37_RetryWaitsForNextRunAt ==
    [][(/\ worker.pc = "mark"
        /\ worker'.pc = "run"
        /\ jobs[worker.job.ID].status = "pending"
        /\ jobs[worker.job.ID].retries > 0)
       => jobs[worker.job.ID].next_run_in <= 0]_vars

-----------------------------------------------------------------------------
(* The redeem code's status beside the status of its jobs *)

\* C38: whenever no job of the redeem code is pending or processing, the
\* status of the code is not "processing": a redeem job that has ended as
\* completed or failed has not left its code in the processing status.
C38_CodeNotLeftProcessing ==
    (\A j \in JobIds : jobs[j].status \notin {"pending", "processing"})
        => redeemCode.status # "processing"

=============================================================================
